---- MODULE Spec2Model ----
(***************************************************************************)
(* Model of cinnamon_core's Registry (core/registry.py): the registry     *)
(* maps, the dependency graph, the pending-registration table and the     *)
(* operations on them, together with the part of Configuration            *)
(* (core/configuration.py) those operations call.                         *)
(***************************************************************************)
EXTENDS Integers, Sequences, FiniteSets, TLC

\* ---------------------------------------------------------------- bounds

\* Number of add_* / register / bind calls the callers make.
MaxCalls == 3

\* The calls made on Configuration objects in one behaviour.
MaxConfigCalls == 3

\* ------------------------------------------------------- RegistrationKey

\* Python's None where a RegistrationKey is expected.
NoKey == [name |-> "None", tags |-> {}, namespace |-> "None"]

\* RegistrationKey.__init__: the three fields; tags=None becomes set().
RegistrationKey(name, tags, namespace) ==
    [name |-> name, tags |-> tags, namespace |-> namespace]

ROOT_KEY == RegistrationKey("root", {}, "root")

\* _DEFAULT_PACKAGES: the namespaces that have a package to load lazily.
DefaultPackages == {"generic", "tf", "th"}

\* The keys of the scenarios; all live in a namespace without package mapping.
KeyA == RegistrationKey("a", {}, "testing")
KeyB == RegistrationKey("b", {}, "testing")
KeyC == RegistrationKey("c", {}, "testing")
KeyAv == RegistrationKey("a", {"v"}, "testing")

\* The keys of test_two_level_add_variants.
KeyConfigC == RegistrationKey("config_c", {}, "testing")
KeyConfigD == RegistrationKey("config_d", {}, "testing")
KeyConfigE == RegistrationKey("config_e", {}, "testing")

\* The keys of tests/test_variants.py.
KeyParent == RegistrationKey("parent", {}, "testing")
KeyConfigA == RegistrationKey("config_a", {}, "testing")
KeyConfigB == RegistrationKey("config_b", {}, "testing")

\* The keys a child parameter declares as its variants (ConfigB of
\* tests/test_graph.py: config_c with the tags var1 and var2).
KeyCVar1 == RegistrationKey("c", {"var1"}, "testing")
KeyCVar2 == RegistrationKey("c", {"var2"}, "testing")

\* ------------------------------------------------- Configuration classes

\* The configuration classes of the scenarios (subclasses of Configuration
\* that override get_default, as the fixtures of tests/test_graph.py do).
\*   Plain      Configuration itself: no child, no variants
\*   ChildA     child = RegistrationKey('a')          (ConfigG-like)
\*   ChildB     child = RegistrationKey('b')          (ConfigF-like)
\*   VarChildB  child = RegistrationKey('b') and one named variant
\*              constructor 'v' whose configuration has no child
\*   ParamVar   x = 1 with variants [1, 2]            (ConfigA-like)
\*   ConfigC    x = 1 with variants [1, 2, 3, 4], child = config_d
\*   ConfigD    y = False with variants [False, True], child = config_e
\*   ConfigE    z = 5 with variants [5, 25, 100]
\*   FlatVariants  x = 5 with variants [10, 15, 20] (ConfigA of
\*              tests/test_graph.py) and y = False with variants [False, True]
\*   ChildVariants  child = RegistrationKey('c') with the variants
\*              config_c{var1} and config_c{var2}
\*   ParentConfig  param_1, param_2 with variants [False, True], child_A =
\*              config_a, child_B = config_b, and the two named variant
\*              constructors variant1 and variant2 (tests/test_variants.py)
ConfigClasses ==
    {"Plain", "ChildA", "ChildB", "VarChildB", "ParamVar", "ConfigC", "ConfigD", "ConfigE",
     "ParentConfig", "ChildVariants", "FlatVariants"}

ComponentClasses == {"CompX", "CompY"}

\* config_class.variants: the named variant constructors of a class.
Variants(cls) ==
    IF cls = "VarChildB"
    THEN << [name |-> "v", tags |-> {}, namespace |-> "None", method |-> "v"] >>
    ELSE IF cls = "ParentConfig"
    THEN << [name |-> "variant1", tags |-> {}, namespace |-> "None", method |-> "variant1"],
            [name |-> "variant2", tags |-> {}, namespace |-> "None", method |-> "variant2"] >>
    ELSE << >>

\* The parameters a constructor of a class adds, as Param records
\* (Configuration.add / Param.__init__); 'built' is added by __init__.
\* variants = None is has_variants = FALSE.
BuiltParam ==
    [value |-> FALSE, is_child |-> FALSE, variants |-> << >>, has_variants |-> FALSE]

ChildParam(key) ==
    [value |-> key, is_child |-> TRUE, variants |-> << >>, has_variants |-> FALSE]

VariantsParam(value, variants) ==
    [value |-> value, is_child |-> FALSE, variants |-> variants, has_variants |-> TRUE]

\* Configuration.__init__ followed by the class's constructor: the instance
\* as a mapping from parameter name to Param.
NewConfiguration(cls, constructor) ==
    LET base == ("built" :> BuiltParam)
        own == CASE cls = "ChildA" -> ("child" :> ChildParam(KeyA))
                 [] cls = "ChildB" -> ("child" :> ChildParam(KeyB))
                 [] cls = "VarChildB" /\ constructor = "get_default" ->
                        ("child" :> ChildParam(KeyB))
                 [] cls = "VarChildB" /\ constructor # "get_default" ->
                        ("child" :> ChildParam(NoKey))
                 [] cls = "FlatVariants" ->
                        ("x" :> VariantsParam(5, <<10, 15, 20>>))
                            @@ ("y" :> VariantsParam(FALSE, <<FALSE, TRUE>>))
                 [] cls = "ChildVariants" ->
                        ("child" :> [ChildParam(KeyC) EXCEPT
                                         !.variants = <<KeyCVar1, KeyCVar2>>,
                                         !.has_variants = TRUE])
                 [] cls = "ParamVar" ->
                        ("x" :> VariantsParam(1, <<1, 2>>))
                 [] cls = "ConfigC" ->
                        ("x" :> VariantsParam(1, <<1, 2, 3, 4>>))
                            @@ ("child" :> ChildParam(KeyConfigD))
                 [] cls = "ConfigD" ->
                        ("y" :> VariantsParam(FALSE, <<FALSE, TRUE>>))
                            @@ ("child" :> ChildParam(KeyConfigE))
                 [] cls = "ConfigE" ->
                        ("z" :> VariantsParam(5, <<5, 25, 100>>))
                 [] cls = "ParentConfig" ->
                        ("param_1" :> VariantsParam(constructor = "get_default",
                                                    <<FALSE, TRUE>>))
                            @@ ("param_2" :> VariantsParam(constructor = "variant2",
                                                           <<FALSE, TRUE>>))
                            @@ ("child_A" :> ChildParam(KeyConfigA))
                            @@ ("child_B" :> ChildParam(KeyConfigB))
                 [] OTHER -> << >>
    IN  [class_type |-> cls, params |-> own @@ base]

\* Configuration.children restricted to registration parameters, as the
\* Registry reads them: the names of the child parameters.
Children(config) == {p \in DOMAIN config.params : config.params[p].is_child}

\* Configuration.get_delta_copy(**kwargs): the overrides that name a direct
\* parameter are applied to a deep copy; if any override is left, the loop
\* over the built children never removes it and RuntimeError is raised.
GetDeltaCopy(config, kwargs) ==
    LET found == DOMAIN kwargs \cap DOMAIN config.params
        copy == [config EXCEPT !.params =
                    [p \in DOMAIN config.params |->
                        IF p \in found
                        THEN [config.params[p] EXCEPT !.value = kwargs[p]]
                        ELSE config.params[p]]]
    IN  IF DOMAIN kwargs \ found = {}
        THEN [exc |-> "none", config |-> copy]
        ELSE [exc |-> "RuntimeError", config |-> config]

\* sorted(params_dict): the parameter names of the scenarios in sorted order.
SortedNames ==
    <<"a", "b", "built", "child", "child_A", "child_B", "l", "param_1", "param_2", "x", "y", "z">>

\* get_dict_values_combinations: the cross product of the variant lists, the
\* parameter names taken in sorted order; the empty combination is dropped.
RECURSIVE Product(_, _)
Product(parameters, i) ==
    IF i > Len(SortedNames) THEN << << >> >>
    ELSE LET name == SortedNames[i]
             rest == Product(parameters, i + 1)
         IN  IF name \notin DOMAIN parameters THEN rest
             ELSE LET vs == parameters[name]
                      n == Len(rest)
                  IN  [j \in 1..(Len(vs) * n) |->
                          (name :> vs[((j - 1) \div n) + 1]) @@ rest[((j - 1) % n) + 1]]

GetDictValuesCombinations(parameters) ==
    IF DOMAIN parameters = {} THEN << >> ELSE Product(parameters, 1)

\* Configuration.items(): the (name, Param) pairs of the parameters.
Items(config) == config.params

\* Configuration.get_variants_combinations(validate=True): the combinations
\* of every parameter with a non-empty variants list; each is validated on
\* self.get_delta_copy(params=comb), whose only keyword is 'params'.
GetVariantsCombinations(config) ==
    LET names == {p \in DOMAIN Items(config) :
                     Items(config)[p].has_variants /\ Len(Items(config)[p].variants) > 0}
        combinations == GetDictValuesCombinations([p \in names |-> Items(config)[p].variants])
        copies == [j \in 1..Len(combinations) |->
                      GetDeltaCopy(config, ("params" :> combinations[j]))]
    IN  IF \E j \in 1..Len(combinations) : copies[j].exc # "none"
        THEN [exc |-> "RuntimeError", combinations |-> << >>]
        ELSE [exc |-> "none", combinations |-> combinations]

\* ------------------------------------------------------------------ state

VARIABLES
    REGISTRY,               \* RegistrationKey -> ConfigurationInfo
    BINDINGS,               \* RegistrationKey -> component class
    BUILT_REGISTRY,         \* RegistrationKey -> built Component
    DEPENDENCY_DAG,         \* nx.DiGraph: [nodes, edges]
    REGISTRATION_REGISTRY,  \* RegistrationKey -> deferred closure (functools.partial)
    nextId,                 \* identity of the next partial object created
    last,                   \* the last call: operation, arguments, outcome
    nCalls,                 \* add_*, register and bind calls made so far
    heap,                   \* the Configuration, Component and list objects alive
    handles,                \* the Configuration objects the caller holds
    REGISTERED_NAMESPACES,  \* the list Registry.REGISTERED_NAMESPACES
    MODULE_SCOPE,           \* the module being imported for its registrations, or "None"
    loaded,                 \* the namespaces whose package was loaded, one entry per load
    given                   \* the environment and the arguments the caller has at hand

vars == <<REGISTRY, BINDINGS, BUILT_REGISTRY, DEPENDENCY_DAG, REGISTRATION_REGISTRY,
          nextId, last, nCalls, heap, handles, REGISTERED_NAMESPACES, MODULE_SCOPE,
          loaded, given>>

\* The objects of the caller: no Registry operation reaches them.
objects == <<heap, handles>>

\* The state of the lazy namespace resolution and the caller's arguments.
lookups == <<REGISTERED_NAMESPACES, MODULE_SCOPE, loaded, given>>

EmptyMap == << >>

\* dict.pop / filtering of a dict: the map without the given keys.
Without(map, keys) == [k \in DOMAIN map \ keys |-> map[k]]

\* The record of a call: op, key, cls (arguments), exc (exception raised or
\* "none"), ret (value returned) and log (closures invoked, for expand).
Call(op, key, cls, exc, ret, log) ==
    [op |-> op, key |-> key, cls |-> cls, exc |-> exc, ret |-> ret, log |-> log]

\* ------------------------------------------------------------ nx.DiGraph

EmptyGraph == [nodes |-> {}, edges |-> {}]

\* DiGraph.add_node
AddNode(G, n) == [G EXCEPT !.nodes = @ \cup {n}]

\* DiGraph.add_edge: the endpoints are added when missing.
AddEdge(G, u, v) == [nodes |-> G.nodes \cup {u, v}, edges |-> G.edges \cup {<<u, v>>}]

\* nx.isolates: the nodes with no neighbour (degree zero).
Isolates(G) ==
    {n \in G.nodes : \A e \in G.edges : e[1] # n /\ e[2] # n}

\* All topological orders of G: every node after all its predecessors. The
\* order nx.topological_sort yields among them is not part of its contract.
RECURSIVE Extensions(_, _, _)
Extensions(G, placed, remaining) ==
    IF remaining = {} THEN {placed}
    ELSE UNION { Extensions(G, Append(placed, n), remaining \ {n}) :
                    n \in {m \in remaining :
                              \A e \in G.edges : e[2] = m => e[1] \notin remaining} }

\* A sort that ignores the edges: some order of the nodes, cycle or not.
TopologicalSorts_AnyOrder(G) == Extensions([G EXCEPT !.edges = {}], << >>, G.nodes)

TopologicalSorts(G) == Extensions(G, << >>, G.nodes)

\* An acyclicity test that only notices self-loops.
IsDAG_SelfLoopsOnly(G) == \A e \in G.edges : e[1] # e[2]

\* nx.is_directed_acyclic_graph
IsDAG(G) == TopologicalSorts(G) # {}

\* list(reversed(...))
Reversed(s) == [i \in 1..Len(s) |-> s[Len(s) + 1 - i]]

\* ----------------------------------------------- eager registry operations

\* Registry.is_in_registry: a lookup; a miss on a namespace of
\* _DEFAULT_PACKAGES would load that package first (no key of the scenarios
\* lives in such a namespace, so the lookup decides).
IsInRegistry(reg, key) == key \in DOMAIN reg

ConfigurationInfo(cls, constructor, kwargs) ==
    [class_type |-> cls, constructor |-> constructor, kwargs |-> kwargs]


\* A register_configuration_from_key that overwrites a registered key.
RegisterConfigurationFromKey_Overwrite(reg, key, cls, constructor, kwargs) ==
    [exc |-> "none",
     reg |-> (key :> ConfigurationInfo(cls, constructor, kwargs)) @@ reg]

\* Registry.register_configuration_from_key
RegisterConfigurationFromKey(reg, key, cls, constructor, kwargs) ==
    IF IsInRegistry(reg, key)
    THEN [exc |-> "AlreadyRegistered", reg |-> reg]
    ELSE [exc |-> "none",
          reg |-> (key :> ConfigurationInfo(cls, constructor, kwargs)) @@ reg]


\* A bind_from_key that rebinds a bound key.
BindFromKey_Rebind(reg, bnd, key, component_class) ==
    IF ~IsInRegistry(reg, key) THEN [exc |-> "NotRegistered", bnd |-> bnd]
    ELSE [exc |-> "none", bnd |-> (key :> component_class) @@ bnd]

\* Registry.bind_from_key
BindFromKey(reg, bnd, key, component_class) ==
    IF ~IsInRegistry(reg, key) THEN [exc |-> "NotRegistered", bnd |-> bnd]
    ELSE IF key \in DOMAIN bnd THEN [exc |-> "AlreadyBound", bnd |-> bnd]
    ELSE [exc |-> "none", bnd |-> (key :> component_class) @@ bnd]

\* Registry.register_and_bind: register_configuration, then bind_from_key.
RegisterAndBind(reg, bnd, key, cls, component_class, constructor, kwargs) ==
    LET r == RegisterConfigurationFromKey(reg, key, cls, constructor, kwargs)
        b == BindFromKey(r.reg, bnd, key, component_class)
    IN  IF r.exc # "none" THEN [exc |-> r.exc, reg |-> reg, bnd |-> bnd]
        ELSE [exc |-> b.exc, reg |-> r.reg, bnd |-> b.bnd]

\* Configuration.get_delta_class_copy: constructor(**constructor_kwargs), then
\* get_delta_copy with the remaining keyword arguments.
GetDeltaClassCopy(cls, kwargs) ==
    GetDeltaCopy(NewConfiguration(cls, kwargs.constructor),
                 [k \in DOMAIN kwargs \ {"constructor", "constructor_kwargs"} |-> kwargs[k]])

\* registered_config_info.constructor(**registered_config_info.kwargs)
Construct(cls, constructor, kwargs) ==
    IF constructor = "get_delta_class_copy"
    THEN GetDeltaClassCopy(cls, kwargs)
    ELSE [exc |-> "none", config |-> NewConfiguration(cls, constructor)]

\* Component.__init__: the component owns the configuration it was given.
Component(component_class, config) ==
    [component_class |-> component_class, config |-> config]

NoComponent == [component_class |-> "None", config |-> << >>]


\* A build_component_from_key that looks the binding up before the registry.
BuildComponentFromKey_BindingFirst(reg, bnd, built, key, register_built_component) ==
    IF key \notin DOMAIN bnd
    THEN [exc |-> "NotBound", ret |-> NoComponent, built |-> built]
    ELSE IF ~IsInRegistry(reg, key)
    THEN [exc |-> "NotRegistered", ret |-> NoComponent, built |-> built]
    ELSE [exc |-> "none",
          ret |-> Component(bnd[key], Construct(reg[key].class_type, reg[key].constructor,
                                                reg[key].kwargs).config),
          built |-> built]

\* Registry.build_component_from_key: result [exc, ret, built].
BuildComponentFromKey(reg, bnd, built, key, register_built_component) ==
    IF ~IsInRegistry(reg, key)
    THEN [exc |-> "NotRegistered", ret |-> NoComponent, built |-> built]
    ELSE LET info == reg[key]
             c == Construct(info.class_type, info.constructor, info.kwargs)
         IN  IF c.exc # "none"
             THEN [exc |-> c.exc, ret |-> NoComponent, built |-> built]
             ELSE IF c.config.class_type # info.class_type
             THEN [exc |-> "InvalidConfigurationType", ret |-> NoComponent, built |-> built]
             ELSE IF key \notin DOMAIN bnd
             THEN [exc |-> "NotBound", ret |-> NoComponent, built |-> built]
             ELSE LET component == Component(bnd[key], c.config)
                  IN  [exc |-> "none", ret |-> component,
                       built |-> IF register_built_component
                                 THEN (key :> component) @@ built
                                 ELSE built]

\* ------------------------------------------------ register_and_bind_variants

\* list(set(...)): some order of the elements of a set.
RECURSIVE SetToSeq(_)
SetToSeq(S) ==
    IF S = {} THEN << >>
    ELSE LET x == CHOOSE y \in S : TRUE IN <<x>> \o SetToSeq(S \ {x})

SeqToSet(s) == {s[i] : i \in 1..Len(s)}

\* The outcome of a (partial) run of register_and_bind_variants: the
\* exception raised, the maps as left, and new_registered_keys.
Outcome(exc, reg, bnd, keys) == [exc |-> exc, reg |-> reg, bnd |-> bnd, keys |-> keys]

\* The tag set of a combination: '{key}={value}' for a scalar, and for a
\* RegistrationKey '{key}.{tag}' per tag plus '{key}.{namespace}' when the
\* namespace differs.
\* f'{value}' of a scalar: str() of an int or a bool.
Format(value) ==
    IF ToString(value) = "TRUE" THEN "True"
    ELSE IF ToString(value) = "FALSE" THEN "False"
    ELSE ToString(value)

CombinationTags(config, combination, namespace) ==
    UNION { IF config.params[k].is_child
            THEN {k \o "." \o t : t \in combination[k].tags}
                 \cup (IF combination[k].namespace # namespace
                       THEN {k \o "." \o combination[k].namespace} ELSE {})
            ELSE {k \o "=" \o Format(combination[k])}
          : k \in DOMAIN combination }

\* The outcome after one more call that raised or returned: the keys are
\* appended only when it returned.
Registered(o, r, keys) ==
    Outcome(r.exc, r.reg, r.bnd, IF r.exc = "none" THEN o.keys \o keys ELSE o.keys)

\* The outcome after a nested register_and_bind_variants: its
\* new_registered_keys extend the caller's.
Merged(o, r) == Outcome(r.exc, r.reg, r.bnd, o.keys \o r.keys)

\* The key of a combination: (name, combination_tags [+ variant_name], namespace).
CombinationKey(key, config, combination, variant_name) ==
    RegistrationKey(key.name,
                    key.tags \cup CombinationTags(config, combination, key.namespace)
                             \cup (IF variant_name # "None" THEN {variant_name} ELSE {}),
                    key.namespace)

\* The loop registering each combination not yet registered under its
\* combination key with constructor get_delta_class_copy; the key joins
\* new_registered_keys either way.
RECURSIVE RegisterCombinations(_, _, _, _, _, _, _, _, _, _)
RegisterCombinations(o, cls, component_class, key, constructor, kwargs, config, variant_name, combinations, i) ==
    IF i > Len(combinations) \/ o.exc # "none" THEN o
    ELSE RegisterCombinations(
             Registered(o,
                        IF ~IsInRegistry(o.reg, CombinationKey(key, config, combinations[i],
                                                               variant_name))
                        THEN RegisterAndBind(o.reg, o.bnd,
                                             CombinationKey(key, config, combinations[i],
                                                            variant_name),
                                             cls, component_class, "get_delta_class_copy",
                                             [params |-> combinations[i],
                                              constructor |-> constructor,
                                              constructor_kwargs |-> kwargs])
                        ELSE [exc |-> "none", reg |-> o.reg, bnd |-> o.bnd],
                        <<CombinationKey(key, config, combinations[i], variant_name)>>),
             cls, component_class, key, constructor, kwargs,
             config, variant_name, combinations, i + 1)

\* variant_name: the names of the variants of the class whose method is the
\* given constructor.
VariantName(cls, constructor) ==
    SelectSeq([j \in 1..Len(Variants(cls)) |->
                   IF Variants(cls)[j].method = constructor
                   THEN Variants(cls)[j].name ELSE "None"],
              LAMBDA n : n # "None")

\* The key of a variant of the class: the variant's name joins the tags.
VariantKey(key, variant) ==
    RegistrationKey(key.name, key.tags \cup {variant.name} \cup variant.tags,
                    IF variant.namespace # "None" THEN variant.namespace ELSE key.namespace)

\* The keys a child parameter asks to expand: its value and its variants.
ChildKeys(child) ==
    (IF child.value # NoKey THEN <<child.value>> ELSE << >>)
    \o (IF child.has_variants THEN child.variants ELSE << >>)

\* The child parameter's variants become the keys its expansion registered
\* (in the order of list(set(...))) followed by the declared ones.
WithChildVariants(s, name, r) ==
    [o |-> Outcome(r.exc, r.reg, r.bnd, s.o.keys),
     config |-> [s.config EXCEPT
                    !.params[name].variants =
                        IF s.config.params[name].has_variants
                        THEN SetToSeq(SeqToSet(r.keys)) \o s.config.params[name].variants
                        ELSE SetToSeq(SeqToSet(r.keys)),
                    !.params[name].has_variants = TRUE]]

RECURSIVE RegisterAndBindVariants(_, _, _, _, _, _, _, _)
RECURSIVE VariantsStage(_, _, _, _, _, _, _)
RECURSIVE ExpandVariants(_, _, _, _, _, _)
RECURSIVE ExpandChildKeys(_, _, _)
RECURSIVE ExpandChildren(_, _, _)

\* The end of register_and_bind_variants, s = [o, config] being the outcome
\* of the children loop: the combinations of the configuration are computed
\* and registered.
CombinationsStage(s, combos, names, cls, component_class, key, constructor, kwargs) ==
    IF combos.exc # "none" THEN Outcome(combos.exc, s.o.reg, s.o.bnd, s.o.keys)
    ELSE RegisterCombinations(s.o, cls, component_class, key, constructor, kwargs, s.config,
                              IF Len(names) = 1 THEN names[1] ELSE "None",
                              combos.combinations, 1)

\* register_and_bind_variants after the children loop, which may have raised.
ChildrenStage(s, names, cls, component_class, key, constructor, kwargs) ==
    IF s.o.exc # "none" THEN s.o
    ELSE CombinationsStage(s, GetVariantsCombinations(s.config), names, cls,
                           component_class, key, constructor, kwargs)

\* register_and_bind_variants once the configuration `c` is constructed: more
\* than one variant name is a RuntimeError; the children are expanded, then
\* the combinations.
ConstructedStage(o, c, names, cls, component_class, key, constructor, kwargs, stack) ==
    IF c.exc # "none" THEN Outcome(c.exc, o.reg, o.bnd, o.keys)
    ELSE IF Len(names) > 1 THEN Outcome("RuntimeError", o.reg, o.bnd, o.keys)
    ELSE ChildrenStage(ExpandChildren([o |-> o, config |-> c.config], 1, stack),
                       names, cls, component_class, key, constructor, kwargs)

\* register_and_bind_variants after the base key: with the default
\* constructor the variants of the class are expanded, and a class with
\* variants returns there.
VariantsStage(o, cls, component_class, key, constructor, kwargs, stack) ==
    IF o.exc # "none" THEN o
    ELSE IF constructor = "get_default" /\ Len(Variants(cls)) > 0
    THEN ExpandVariants(o, cls, component_class, key, 1, stack)
    ELSE ConstructedStage(o, Construct(cls, constructor, kwargs),
                          VariantName(cls, constructor),
                          cls, component_class, key, constructor, kwargs, stack)

\* A register_and_bind_variants that registers the base key without looking
\* it up first.
RegisterAndBindVariants_Unguarded(reg, bnd, cls, component_class, key, constructor, kwargs, stack) ==
    IF <<key, cls, constructor>> \in stack THEN Outcome("RecursionError", reg, bnd, << >>)
    ELSE VariantsStage(
             Registered(Outcome("none", reg, bnd, << >>),
                        RegisterAndBind(reg, bnd, key, cls, component_class,
                                        constructor, kwargs),
                        <<key>>),
             cls, component_class, key, constructor, kwargs,
             stack \cup {<<key, cls, constructor>>})

\* Registry.register_and_bind_variants with parameter_variants_only=False and
\* allow_parameter_variants=True. `stack` holds the calls in progress: a call
\* that meets itself again recurses until Python raises RecursionError.
RegisterAndBindVariants(reg, bnd, cls, component_class, key, constructor, kwargs, stack) ==
    IF <<key, cls, constructor>> \in stack THEN Outcome("RecursionError", reg, bnd, << >>)
    ELSE VariantsStage(
             IF ~IsInRegistry(reg, key)
             THEN Registered(Outcome("none", reg, bnd, << >>),
                             RegisterAndBind(reg, bnd, key, cls, component_class,
                                             constructor, kwargs),
                             <<key>>)
             ELSE Outcome("none", reg, bnd, << >>),
             cls, component_class, key, constructor, kwargs,
             stack \cup {<<key, cls, constructor>>})

\* The loop over config_class.variants: each variant key not yet registered
\* is expanded with the variant's constructor.
ExpandVariants(o, cls, component_class, key, i, stack) ==
    IF i > Len(Variants(cls)) \/ o.exc # "none" THEN o
    ELSE ExpandVariants(
             IF ~IsInRegistry(o.reg, VariantKey(key, Variants(cls)[i]))
             THEN Merged(o, RegisterAndBindVariants(o.reg, o.bnd, cls, component_class,
                                                    VariantKey(key, Variants(cls)[i]),
                                                    Variants(cls)[i].method, << >>, stack))
             ELSE o,
             cls, component_class, key, i + 1, stack)

\* For each key of `keys`: retrieve its ConfigurationInfo (NotRegistered when
\* missing), its binding (NotBound when missing) and expand it recursively.
ExpandChildKeys(o, keys, stack) ==
    IF keys = << >> \/ o.exc # "none" THEN o
    ELSE IF ~IsInRegistry(o.reg, Head(keys))
    THEN Outcome("NotRegistered", o.reg, o.bnd, o.keys)
    ELSE IF Head(keys) \notin DOMAIN o.bnd
    THEN Outcome("NotBound", o.reg, o.bnd, o.keys)
    ELSE ExpandChildKeys(
             Merged(o, RegisterAndBindVariants(o.reg, o.bnd, o.reg[Head(keys)].class_type,
                                               o.bnd[Head(keys)], Head(keys),
                                               o.reg[Head(keys)].constructor,
                                               o.reg[Head(keys)].kwargs, stack)),
             Tail(keys), stack)

\* The loop over the child parameters of built_config: the child's key and
\* its declared variants are expanded, and the keys this registered become
\* the child parameter's variants. s = [o, config].
ExpandChildren(s, i, stack) ==
    IF i > Len(SortedNames) \/ s.o.exc # "none" THEN s
    ELSE IF SortedNames[i] \notin Children(s.config) THEN ExpandChildren(s, i + 1, stack)
    ELSE ExpandChildren(
             WithChildVariants(s, SortedNames[i],
                               ExpandChildKeys(Outcome("none", s.o.reg, s.o.bnd, << >>),
                                               ChildKeys(s.config.params[SortedNames[i]]),
                                               stack)),
             i + 1, stack)

\* ------------------------------------------------------ deferred closures

\* functools.partial(func, ...): a closure; `id` is the object's identity,
\* which is what `value != registration_method` compares.
Partial(id, func, cls, component_class, key, constructor) ==
    [id |-> id, func |-> func, config_class |-> cls, component_class |-> component_class,
     key |-> key, constructor |-> constructor]

\* The maps of an outcome.
Maps(r) == [exc |-> r.exc, reg |-> r.reg, bnd |-> r.bnd]

\* registration_method(): the call the closure stands for.
Invoke(m, reg, bnd) ==
    CASE m.func = "register_configuration_from_key" ->
            RegisterConfigurationFromKey(reg, m.key, m.config_class, m.constructor, << >>)
                @@ [bnd |-> bnd]
      [] m.func = "register_and_bind" ->
            RegisterAndBind(reg, bnd, m.key, m.config_class, m.component_class,
                            m.constructor, << >>)
      [] OTHER ->
            Maps(RegisterAndBindVariants(reg, bnd, m.config_class, m.component_class,
                                         m.key, m.constructor, << >>, {}))


\* A loop that pops the key alone and keeps the other entries of its closure.
SameClosure_KeyOnly(pend, key) == {key}

\* The keys of the table that hold the closure of `key`.
SameClosure(pend, key) == {k \in DOMAIN pend : pend[k].id = pend[key].id}

\* What the loop records of a pop: the key, the closure, the keys dropped
\* with it, the table before the pop and how the closure ended.
LogEntry(pend, key, exc) ==
    [key |-> key, closure |-> pend[key], aliases |-> SameClosure(pend, key),
     pending |-> DOMAIN pend, exc |-> exc]

RECURSIVE ResolveLoop(_, _, _, _, _, _)

\* A loop body that puts a closure that raised back into the table.
Invoked_KeepFailed(order, i, pend, r, log) ==
    IF r.exc # "none"
    THEN [exc |-> r.exc, pend |-> pend, reg |-> r.reg, bnd |-> r.bnd,
          log |-> Append(log, LogEntry(pend, order[i], r.exc))]
    ELSE ResolveLoop(order, i + 1, Without(pend, SameClosure(pend, order[i])),
                     r.reg, r.bnd, Append(log, LogEntry(pend, order[i], r.exc)))

\* The loop body once the popped closure has run: an exception ends the loop.
Invoked(order, i, pend, r, log) ==
    IF r.exc # "none"
    THEN [exc |-> r.exc, pend |-> Without(pend, SameClosure(pend, order[i])),
          reg |-> r.reg, bnd |-> r.bnd,
          log |-> Append(log, LogEntry(pend, order[i], r.exc))]
    ELSE ResolveLoop(order, i + 1, Without(pend, SameClosure(pend, order[i])),
                     r.reg, r.bnd, Append(log, LogEntry(pend, order[i], r.exc)))

\* The loop of expand_and_resolve_registration over the reversed order: a key
\* still in the table is popped, every entry holding the same closure is
\* dropped, and the closure is invoked.
ResolveLoop(order, i, pend, reg, bnd, log) ==
    IF i > Len(order)
    THEN [exc |-> "none", pend |-> pend, reg |-> reg, bnd |-> bnd, log |-> log]
    ELSE IF order[i] \notin DOMAIN pend
    THEN ResolveLoop(order, i + 1, pend, reg, bnd, log)
    ELSE Invoked(order, i, pend, Invoke(pend[order[i]], reg, bnd), log)

\* ------------------------------------------------------------ graph stage

\* A first block that gives every added key the edge root -> key, known or
\* not.
AddKeyToGraph_AlwaysRoot(G, key, parent, children) ==
    LET G1 == AddEdge(AddNode(G, key), ROOT_KEY, key)
        G2 == IF parent # NoKey THEN AddEdge(G1, parent, key) ELSE G1
    IN  [nodes |-> G2.nodes \cup children, edges |-> G2.edges \cup {<<key, c>> : c \in children}]

\* The first block of add_configuration_from_key / add_and_bind: a new key
\* gets a node and the edge root -> key; a known key gets the edge from
\* `parent` (and to each of `children`) when given.
AddKeyToGraph(G, key, parent, children) ==
    IF key \notin G.nodes
    THEN AddEdge(AddNode(G, key), ROOT_KEY, key)
    ELSE LET G1 == IF parent # NoKey THEN AddEdge(G, parent, key) ELSE G
         IN  [nodes |-> G1.nodes \cup children \cup (IF children # {} THEN {key} ELSE {}),
              edges |-> G1.edges \cup {<<key, c>> : c \in children}]

\* The loop over the child parameters of the fresh configuration: an edge
\* key -> child for the child's key and for each of its declared variants.
AddChildrenToGraph(G, key, config) ==
    LET targets == UNION { (IF config.params[p].value # NoKey
                            THEN {config.params[p].value} ELSE {})
                           \cup (IF config.params[p].has_variants
                                 THEN SeqToSet(config.params[p].variants) ELSE {})
                         : p \in Children(config) }
    IN  [nodes |-> G.nodes \cup targets \cup (IF targets # {} THEN {key} ELSE {}),
         edges |-> G.edges \cup {<<key, t>> : t \in targets}]

\* A memo that records the closure of every call, replacing the one it had.
Memo_Replace(pend, key, m) == (key :> m) @@ pend

\* `if registration_key not in Registry.REGISTRATION_REGISTRY`: the first
\* closure recorded for a key is kept.
Memo(pend, key, m) == IF key \in DOMAIN pend THEN pend ELSE (key :> m) @@ pend

\* The loop of add_and_bind_variants over config_class.variants: the variant
\* key gets a node, the edge root -> variant key and the main key's closure
\* (replacing any closure it had); the children of the variant's own
\* configuration hang off the variant key. Result: [G, pend].
RECURSIVE AddVariantKeys(_, _, _, _, _)
AddVariantKeys(G, pend, cls, main_key, i) ==
    IF i > Len(Variants(cls)) THEN [G |-> G, pend |-> pend]
    ELSE LET variant == Variants(cls)[i]
             variant_key == RegistrationKey(main_key.name,
                                            main_key.tags \cup {variant.name},
                                            main_key.namespace)
             G1 == AddEdge(AddNode(G, variant_key), ROOT_KEY, variant_key)
             G2 == AddChildrenToGraph(G1, variant_key, NewConfiguration(cls, variant.method))
         IN  AddVariantKeys(G2, (variant_key :> pend[main_key]) @@ pend, cls, main_key, i + 1)

\* The loop of add_and_bind_variants over the surviving combinations: the
\* combination key gets a node, the edge root -> combination key and the
\* main key's closure. Result: [G, pend].
RECURSIVE AddCombinationKeys(_, _, _, _, _, _)
AddCombinationKeys(G, pend, config, main_key, combinations, i) ==
    IF i > Len(combinations) THEN [G |-> G, pend |-> pend]
    ELSE LET combination_key ==
                 RegistrationKey(main_key.name,
                                 main_key.tags \cup CombinationTags(config, combinations[i],
                                                                    main_key.namespace),
                                 main_key.namespace)
         IN  AddCombinationKeys(AddEdge(AddNode(G, combination_key), ROOT_KEY, combination_key),
                                (combination_key :> pend[main_key]) @@ pend,
                                config, main_key, combinations, i + 1)

\* The end of add_and_bind_variants, v = [G, pend] as left by the children
\* loop: an exception of get_variants_combinations leaves what the call has
\* done so far. Result: [exc, G, pend].
AddCombinations(v, built_config, combos, main_key) ==
    IF combos.exc # "none" THEN [exc |-> combos.exc] @@ v
    ELSE [exc |-> "none"]
         @@ AddCombinationKeys(v.G, v.pend, built_config, main_key, combos.combinations, 1)

\* add_and_bind_variants after the loop over the variants of the class,
\* v = [G, pend]: the children of the default configuration hang off the main key.
AddDefaultChildren(v, built_config, main_key) ==
    AddCombinations([G |-> AddChildrenToGraph(v.G, main_key, built_config), pend |-> v.pend],
                    built_config, GetVariantsCombinations(built_config), main_key)

\* Registry.add_and_bind_variants with the default constructor: the main
\* key's closure is memoised, a new main key gets root -> key, then the
\* variants, the children and the combinations follow.
AddAndBindVariantsOp(G, pend, id, main_key, cls, component_class) ==
    AddDefaultChildren(
        AddVariantKeys(IF main_key \notin G.nodes
                       THEN AddEdge(AddNode(G, main_key), ROOT_KEY, main_key) ELSE G,
                       Memo(pend, main_key,
                            Partial(id, "register_and_bind_variants", cls, component_class,
                                    main_key, "get_default")),
                       cls, main_key, 1),
        NewConfiguration(cls, "get_default"), main_key)

\* ------------------------------------------------- Configuration objects
\* A Configuration instance (configuration.py 200-676) as an object of the
\* heap: its __dict__ is `params` (the Params not tagged 'condition', with the
\* order of insertion in `order`) and `conditions` (the Params tagged
\* 'condition', in order of insertion).  Values are None (NoKey), a
\* RegistrationKey, a scalar [t, v] or a reference [t, ref] to a list or
\* Component of the heap.

Value(t, v) == [t |-> t, v |-> v]

Ref(t, id) == [t |-> t, ref |-> id]

True == Value("bool", "True")

False == Value("bool", "False")

IsRef(value) == "ref" \in DOMAIN value

\* type(value).__name__
TypeOf(value) ==
    IF "t" \in DOMAIN value THEN value.t
    ELSE IF value = NoKey THEN "NoneType" ELSE "RegistrationKey"

\* check_type(value=..., expected_type=type_hint) of typing_condition, for the
\* type hints of the scenarios: bool is an int, a List[int] is a list of ints.
CheckType(h, value, type_hint) ==
    CASE type_hint = "int" -> TypeOf(value) \in {"int", "bool"}
      [] type_hint = "List[int]" ->
            /\ TypeOf(value) = "list"
            /\ \A i \in DOMAIN h[value.ref].items :
                  TypeOf(h[value.ref].items[i]) \in {"int", "bool"}
      [] OTHER -> TypeOf(value) = type_hint

\* The arguments of add() with their defaults; "None" is an argument left out.
AddArguments(name, value) ==
    [name |-> name, value |-> value, type_hint |-> "None", is_required |-> FALSE,
     is_child |-> FALSE, build_type_hint |-> "None", allowed_range |-> "None",
     variants |-> << >>, has_variants |-> FALSE]

\* A condition of the Configuration: a Param whose value is the callable.
\* kind names the callable, param (and other) the parameters it reads.
Condition(name, kind, param, other, type_hint, tags) ==
    [name |-> name, kind |-> kind, param |-> param, other |-> other,
     type_hint |-> type_hint, tags |-> tags]

\* add_condition(): tags.add('condition'), then add(name, value=condition,
\* tags=tags): a new entry of __dict__, or the value and tags of the existing
\* entry replaced in place.
AddCondition(config, c) ==
    LET tagged == [c EXCEPT !.tags = @ \cup {"condition"}]
        same == {i \in DOMAIN config.conditions : config.conditions[i].name = c.name}
    IN IF same # {}
       THEN [config EXCEPT !.conditions[CHOOSE i \in same : TRUE] = tagged]
       ELSE [config EXCEPT !.conditions = Append(@, tagged)]

\* Param.__init__ from the arguments of add().
NewParam(d) ==
    [value |-> d.value, is_child |-> d.is_child, variants |-> d.variants,
     has_variants |-> d.has_variants]

\* add() up to the conditions: the Param is created or merged.
AddParam(config, d) ==
    IF d.name \in DOMAIN config.params
    THEN [config EXCEPT !.params[d.name] =
             [@ EXCEPT !.value = IF d.value = NoKey THEN @ ELSE d.value,
                       !.variants = IF d.has_variants THEN d.variants ELSE @,
                       !.has_variants = @ \/ d.has_variants]]
    ELSE [config EXCEPT
             !.params = (d.name :> NewParam(d)) @@ @,
             !.order = Append(@, d.name)]

AddRequired(config, d) ==
    IF d.is_required
    THEN AddCondition(config, Condition(d.name \o "_is_required", "is_required",
                                        d.name, "None", "None", {}))
    ELSE config

AddTypecheck(config, d) ==
    IF d.is_child \/ d.type_hint # "None"
    THEN AddCondition(config, Condition(d.name \o "_typecheck", "typecheck", d.name, "None",
                          IF d.is_child THEN "RegistrationKey" ELSE d.type_hint,
                          {"typechecking", "pre-built"}))
    ELSE config

AddBuildTypecheck(config, d) ==
    IF d.is_child /\ d.build_type_hint # "None"
    THEN AddCondition(config, Condition("post_" \o d.name \o "_build_typecheck",
                          "build_typecheck", d.name, "None", d.build_type_hint,
                          {"typechecking", "post-built"}))
    ELSE config

AddAllowedRange(config, d) ==
    IF d.allowed_range # "None"
    THEN AddCondition(config, Condition(d.name \o "_allowed_range", "allowed_range",
                                        d.name, "None", d.allowed_range, {"allowed_range"}))
    ELSE config

AddValidVariants(config, d) ==
    IF d.has_variants
    THEN AddCondition(config, Condition(d.name \o "_valid_variants", "valid_variants",
                                        d.name, "None", "None", {"variants"}))
    ELSE config

\* Configuration.add()
Add(config, d) ==
    AddValidVariants(AddAllowedRange(AddBuildTypecheck(AddTypecheck(
        AddRequired(AddParam(config, d), d), d), d), d), d)

\* Configuration.__init__() without keyword arguments.
ConfigurationInit(cls) ==
    Add([kind |-> "Configuration", class_type |-> cls, params |-> << >>,
         order |-> << >>, conditions |-> << >>],
        [AddArguments("built", False) EXCEPT !.type_hint = "bool", !.is_required = TRUE])

\* self.built
IsBuilt(config) == config.params["built"].value = True

\* ---------------------------------------------------------- validate()
\* condition(self): "True", "False", or the exception the callable raises.
\* The callable of post_{name}_build_typecheck passes param_name= to
\* typing_condition, which has no such argument: TypeError.
EvalCondition(h, config, c) ==
    CASE c.kind = "is_required" -> "True"
      [] c.kind = "typecheck" ->
            IF CheckType(h, config.params[c.param].value, c.type_hint)
            THEN "True" ELSE "False"
      [] c.kind = "build_typecheck" -> "TypeError"
      [] c.kind = "valid_variants" ->
            IF Len(config.params[c.param].variants) > 0 THEN "True" ELSE "False"
      [] c.kind = "equal" ->
            IF config.params[c.param].value = config.params[c.other].value
            THEN "True" ELSE "False"
      [] OTHER -> "True"

\* The two filters of validate(): the tag 'condition' is there and the tag
\* 'pre' (built) or 'post' (not built) is not.
StageFilter(config, c) ==
    /\ "condition" \in c.tags
    /\ (IF IsBuilt(config) THEN "pre" ELSE "post") \notin c.tags

\* A ValidationResult, or the exception raised instead of it; `evaluated` is
\* the log of the conditions the call evaluated on its own configuration.
ValidationResult(exc, passed, error_message, source) ==
    [exc |-> exc, passed |-> passed, error_message |-> error_message, source |-> source,
     evaluated |-> << >>]

Evaluated(r, log) == [r EXCEPT !.evaluated = log]

Passed(config) == ValidationResult("none", TRUE, "None", config.class_type)

IsPassed(r) == r.exc = "none" /\ r.passed

\* One evaluated condition of the loop of validate().
ConditionResult(config, c, e, strict) ==
    IF e = "False"
    THEN ValidationResult(IF strict THEN "ValidationFailure" ELSE "none", FALSE,
                          "Condition " \o c.name \o " failed!", config.class_type)
    ELSE ValidationResult(e, FALSE, "None", config.class_type)

\* The loop of validate() over the selected conditions, from the i-th on.
RECURSIVE ValidateConditions(_, _, _, _, _)
ValidateConditions(h, config, strict, i, log) ==
    IF i > Len(config.conditions) THEN Evaluated(Passed(config), log)
    ELSE IF ~StageFilter(config, config.conditions[i])
         THEN ValidateConditions(h, config, strict, i + 1, log)
         ELSE IF EvalCondition(h, config, config.conditions[i]) = "True"
              THEN ValidateConditions(h, config, strict, i + 1,
                                      Append(log, config.conditions[i]))
              ELSE Evaluated(ConditionResult(config, config.conditions[i],
                                 EvalCondition(h, config, config.conditions[i]), strict),
                             Append(log, config.conditions[i]))

RECURSIVE Validate(_, _, _)

RECURSIVE ValidateChildren(_, _, _, _)

\* `if not child_validation.passed: return child_validation`
AfterChild(h, config, strict, i, r) ==
    IF ~IsPassed(r) THEN Evaluated(r, << >>)
    ELSE ValidateChildren(h, config, strict, i + 1)

\* The conditions of the configuration itself come after its children.
AfterChildren(h, id, strict, r) ==
    IF ~IsPassed(r) THEN r ELSE ValidateConditions(h, h[id], strict, 1, << >>)

\* The loop of validate() over self.children of a built configuration.
ValidateChildren(h, config, strict, i) ==
    IF i > Len(config.order) THEN Passed(config)
    ELSE IF ~config.params[config.order[i]].is_child
         THEN ValidateChildren(h, config, strict, i + 1)
         ELSE IF TypeOf(config.params[config.order[i]].value) # "Component"
              THEN ValidationResult("AttributeError", FALSE, "None", config.class_type)
              ELSE AfterChild(h, config, strict, i,
                       Validate(h, h[config.params[config.order[i]].value.ref].config, strict))

\* Configuration.validate(strict) of the object `id`.
Validate(h, id, strict) ==
    IF IsBuilt(h[id])
    THEN AfterChildren(h, id, strict, ValidateChildren(h, h[id], strict, 1))
    ELSE ValidateConditions(h, h[id], strict, 1, << >>)

\* --------------------------------------------------------- post_build()
\* The add() calls of the constructor of a configuration the Registry
\* built, replayed on the object: one per parameter beside `built`.
RECURSIVE ReplayAdd(_, _, _)
ReplayAdd(object, config, i) ==
    IF i > Len(SortedNames) THEN object
    ELSE IF SortedNames[i] = "built" \/ SortedNames[i] \notin DOMAIN config.params
         THEN ReplayAdd(object, config, i + 1)
         ELSE ReplayAdd(Add(object,
                            [AddArguments(SortedNames[i], config.params[SortedNames[i]].value)
                                EXCEPT !.is_child = config.params[SortedNames[i]].is_child,
                                       !.variants = config.params[SortedNames[i]].variants,
                                       !.has_variants = config.params[SortedNames[i]].has_variants]),
                        config, i + 1)

\* The configuration of a Component the Registry built, as an object of the
\* heap.
ToHeap(config) == ReplayAdd(ConfigurationInit(config.class_type), config, 1)

\* `child.value = Registry.build_component_from_key(child.value)` for the
\* child `name` of the object `id`: the Component and its configuration are
\* new objects of the heap.
BuildChild(h, id, name, component) ==
    [Append(Append(h, ToHeap(component.config)),
            [kind |-> "Component", component_class |-> component.component_class,
             config |-> Len(h) + 1])
        EXCEPT ![id].params[name].value = Ref("Component", Len(h) + 2)]

RECURSIVE BuildChildren(_, _, _, _, _)

\* An exception of build_component_from_key leaves post_build() at once.
BuiltChild(h, id, reg, bnd, i, b) ==
    IF b.exc # "none" THEN [exc |-> b.exc, heap |-> h]
    ELSE BuildChildren(BuildChild(h, id, h[id].order[i], b.ret), id, reg, bnd, i + 1)

\* The loop of post_build() over self.children, from the i-th parameter on.
\* A child that is already a Component makes RegistrationKey.parse raise
\* TypeError.
BuildChildren(h, id, reg, bnd, i) ==
    IF i > Len(h[id].order) THEN [exc |-> "none", heap |-> h]
    ELSE IF \/ ~h[id].params[h[id].order[i]].is_child
            \/ h[id].params[h[id].order[i]].value = NoKey
         THEN BuildChildren(h, id, reg, bnd, i + 1)
         ELSE IF TypeOf(h[id].params[h[id].order[i]].value) # "RegistrationKey"
              THEN [exc |-> "TypeError", heap |-> h]
              ELSE BuiltChild(h, id, reg, bnd, i,
                       BuildComponentFromKey(reg, bnd, EmptyMap,
                           h[id].params[h[id].order[i]].value, FALSE))

\* `self.built = True`, that is add(name='built', value=True), once the loop
\* is through.
SetBuilt(id, r) ==
    IF r.exc # "none" THEN r
    ELSE [exc |-> "none", heap |-> [r.heap EXCEPT ![id] = Add(@, AddArguments("built", True))]]

\* A post_build() that sets `built` before it resolves the children.
PostBuild_BuiltFirst(h, id, reg, bnd) ==
    IF IsBuilt(h[id]) THEN [exc |-> "none", heap |-> h]
    ELSE BuildChildren([h EXCEPT ![id] = Add(@, AddArguments("built", True))], id, reg, bnd, 1)

\* A post_build() without the check of `built`.
PostBuild_NoGuard(h, id, reg, bnd) ==
    SetBuilt(id, BuildChildren(h, id, reg, bnd, 1))

\* Configuration.post_build() of the object `id`.
PostBuild(h, id, reg, bnd) ==
    IF IsBuilt(h[id]) THEN [exc |-> "none", heap |-> h]
    ELSE SetBuilt(id, BuildChildren(h, id, reg, bnd, 1))

\* ------------------------------------------------------ get_delta_copy()
\* The objects an object refers to.
Refs(object) ==
    CASE object.kind = "Configuration" ->
            {object.params[p].value.ref :
                p \in {q \in DOMAIN object.params : IsRef(object.params[q].value)}}
      [] object.kind = "Component" -> {object.config}
      [] OTHER ->
            {object.items[i].ref : i \in {j \in DOMAIN object.items : IsRef(object.items[j])}}

\* The objects reachable from the objects `ids`, these included.
RECURSIVE Reachable(_, _)
Reachable(h, ids) ==
    IF UNION {Refs(h[i]) : i \in ids} \subseteq ids THEN ids
    ELSE Reachable(h, ids \cup UNION {Refs(h[i]) : i \in ids})

\* The memo of deepcopy: the new object that stands for the object i.
CopyOf(h, ids, i) == Len(h) + Cardinality({j \in ids : j <= i})

CopyValue(h, ids, value) ==
    IF IsRef(value) THEN [value EXCEPT !.ref = CopyOf(h, ids, value.ref)] ELSE value

\* `item in self.config` of Component.__getattr__: Configuration.__contains__.
Contains(config, item) == item \in DOMAIN config.params

\* deepcopy of one object.  It asks a Component for __deepcopy__, which
\* Component.__getattr__ looks up among the parameters of the configuration;
\* the configurations of the scenarios have no such parameter.
CopyObject(h, ids, object) ==
    CASE object.kind = "Configuration" ->
            [object EXCEPT !.params =
                [p \in DOMAIN object.params |->
                    [object.params[p] EXCEPT !.value = CopyValue(h, ids, object.params[p].value)]]]
      [] object.kind = "Component" /\ ~Contains(h[object.config], "__deepcopy__") ->
            [object EXCEPT !.config = CopyOf(h, ids, object.config)]
      [] object.kind = "Component" /\ Contains(h[object.config], "__deepcopy__") ->
            object
      [] OTHER ->
            [object EXCEPT !.items =
                [i \in DOMAIN object.items |-> CopyValue(h, ids, object.items[i])]]

\* A copy that shares the lists and components of the original.
Deepcopy_Shallow(h, id) ==
    [heap |-> Append(h, h[id]), ret |-> Len(h) + 1]

\* copy.deepcopy(self): every object reachable from `id` is copied once, the
\* references among the copies being those among the originals.
Deepcopy(h, id) ==
    LET ids == Reachable(h, {id})
    IN  [heap |-> h \o [k \in 1..Cardinality(ids) |->
                          CopyObject(h, ids, h[CHOOSE i \in ids : CopyOf(h, ids, i) = Len(h) + k])],
         ret |-> CopyOf(h, ids, id)]

\* `copy.get(key).value = deepcopy(value)` for the overrides found among
\* self.params; the override values of the scenarios are scalars and keys.
ApplyOverrides(c, found, kwargs) ==
    [c.heap EXCEPT ![c.ret].params =
        [p \in DOMAIN c.heap[c.ret].params |->
            IF p \in found
            THEN [c.heap[c.ret].params[p] EXCEPT !.value = kwargs[p]]
            ELSE c.heap[c.ret].params[p]]]

RECURSIVE GetDeltaCopyObject(_, _, _)

RECURSIVE DeltaChildren(_, _, _, _)

\* `copy.get(child_key).value.config = ...`: the Component of the copy gets
\* the delta copy of its configuration.
AfterDeltaChild(h, id, kwargs, i, component, r) ==
    IF r.exc # "none" THEN [exc |-> r.exc, heap |-> h]
    ELSE DeltaChildren([r.heap EXCEPT ![component].config = r.ret], id, kwargs, i + 1)

\* The loop of get_delta_copy() over copy.children: every child that holds a
\* Component is handed the overrides that are left, as they are.
DeltaChildren(h, id, kwargs, i) ==
    IF i > Len(h[id].order) THEN [exc |-> "none", heap |-> h]
    ELSE IF \/ ~h[id].params[h[id].order[i]].is_child
            \/ TypeOf(h[id].params[h[id].order[i]].value) # "Component"
         THEN DeltaChildren(h, id, kwargs, i + 1)
         ELSE AfterDeltaChild(h, id, kwargs, i, h[id].params[h[id].order[i]].value.ref,
                  GetDeltaCopyObject(h, h[h[id].params[h[id].order[i]].value.ref].config,
                                     kwargs))

\* A lenient end of get_delta_copy: the overrides left are dropped and the
\* copy is returned.
Leftover_Dropped(h, r) == [exc |-> "none", heap |-> r.heap, ret |-> Len(h) + 1]

\* `if len(kwargs): raise RuntimeError`: the loop over the children pops
\* nothing, so this is reached with the overrides that were left before it.
\* The copy is dropped with the exception.
Leftover(h, r) ==
    [exc |-> IF r.exc # "none" THEN r.exc ELSE "RuntimeError", heap |-> h, ret |-> 0]

\* Configuration.get_delta_copy(**kwargs) of the object `id`.
GetDeltaCopyObject(h, id, kwargs) ==
    LET found == DOMAIN kwargs \cap DOMAIN h[id].params
        applied == ApplyOverrides(Deepcopy(h, id), found, kwargs)
    IN  IF DOMAIN kwargs \subseteq found
        THEN [exc |-> "none", heap |-> applied, ret |-> Deepcopy(h, id).ret]
        ELSE Leftover(h, DeltaChildren(applied, Deepcopy(h, id).ret, Without(kwargs, found), 1))

\* ------------------------------------------------------ fully_validate()
WithHeap(r, h) ==
    [exc |-> r.exc, passed |-> r.passed, error_message |-> r.error_message,
     source |-> r.source, evaluated |-> r.evaluated, heap |-> h]

\* fully_validate() after post_build(): an exception is raised again when
\* strict and becomes a failed ValidationResult otherwise.
AfterPostBuild(id, strict, r) ==
    IF r.exc # "none"
    THEN WithHeap(ValidationResult(IF strict THEN r.exc ELSE "none", FALSE, r.exc,
                                   r.heap[id].class_type), r.heap)
    ELSE WithHeap(Validate(r.heap, id, strict), r.heap)

\* Configuration.fully_validate(strict) of the object `id`: the result of the
\* first validate() is dropped unless it raises.
FullyValidate(h, id, strict, reg, bnd) ==
    IF IsBuilt(h[id]) \/ Validate(h, id, strict).exc # "none"
    THEN WithHeap(Validate(h, id, strict), h)
    ELSE AfterPostBuild(id, strict, PostBuild(h, id, reg, bnd))

\* ------------------------------------------- get_variants_combinations()
RECURSIVE Surviving(_, _, _, _, _, _)

Survived(h, id, combinations, j, reg, bnd, v, rest) ==
    IF v.exc # "none" THEN [exc |-> v.exc, combinations |-> << >>]
    ELSE IF rest.exc # "none" THEN rest
    ELSE [exc |-> "none",
          combinations |-> (IF v.passed THEN << combinations[j] >> ELSE << >>)
                           \o rest.combinations]

Copied(h, id, combinations, j, reg, bnd, r) ==
    IF r.exc # "none" THEN [exc |-> r.exc, combinations |-> << >>]
    ELSE Survived(h, id, combinations, j, reg, bnd,
                  FullyValidate(r.heap, r.ret, FALSE, reg, bnd),
                  Surviving(h, id, combinations, j + 1, reg, bnd))

\* The comprehension of get_variants_combinations(validate=True): each
\* combination is kept if self.get_delta_copy(params=comb) fully validates.
Surviving(h, id, combinations, j, reg, bnd) ==
    IF j > Len(combinations) THEN [exc |-> "none", combinations |-> << >>]
    ELSE Copied(h, id, combinations, j, reg, bnd,
                GetDeltaCopyObject(h, id, ("params" :> combinations[j])))

\* Configuration.get_variants_combinations(validate) of the object `id`.
GetVariantsCombinationsObject(h, id, validate, reg, bnd) ==
    LET names == {p \in DOMAIN Items(h[id]) :
                     Items(h[id])[p].has_variants /\ Len(Items(h[id])[p].variants) > 0}
        combinations == GetDictValuesCombinations([p \in names |-> Items(h[id])[p].variants])
    IN  IF validate
        THEN Surviving(h, id, combinations, 1, reg, bnd)
        ELSE [exc |-> "none", combinations |-> combinations]

\* ---------------------------------------------------------------- inputs

\* (key, configuration class) pairs given to add_configuration_from_key.
AddDeclarations == { <<KeyB, "Plain">>, <<KeyB, "ChildA">> }

\* (key, configuration class) pairs given to add_and_bind.
BindDeclarations == { <<KeyA, "ChildB">>, <<KeyB, "Plain">> }

\* (key, configuration class) pairs given to add_and_bind_variants.
VariantDeclarations == { <<KeyA, "VarChildB">>, <<KeyA, "ChildB">> }

\* (key, configuration class) pairs registered eagerly.
EagerDeclarations == { <<KeyA, "ChildB">>, <<KeyB, "Plain">> }

\* The `parent` argument: None or a key.
Parents == {NoKey, KeyC}

\* The keys looked up by build and bind.
LookupKeys == {KeyA, KeyB}

\* ------------------------------------------------------------------ Init

Init ==
    /\ REGISTRY = EmptyMap
    /\ BINDINGS = EmptyMap
    /\ BUILT_REGISTRY = EmptyMap
    /\ DEPENDENCY_DAG = AddNode(EmptyGraph, ROOT_KEY)
    /\ REGISTRATION_REGISTRY = EmptyMap
    /\ nextId = 1
    /\ last = Call("init", NoKey, "None", "none", NoComponent, << >>)
    /\ nCalls = 0
    /\ heap = << >>
    /\ handles = << >>
    /\ REGISTERED_NAMESPACES = << >>
    /\ MODULE_SCOPE = "None"
    /\ loaded = << >>
    /\ given = << >>

\* --------------------------------------------------------------- actions

\* What check_registration_graph raises ("none": it returns True).
CheckOutcome(G) ==
    IF Isolates(G) # {} /\ Cardinality(G.nodes) > 1 THEN "DisconnectedGraph"
    ELSE IF ~IsDAG(G) THEN "NotADAG"
    ELSE "none"

\* Registry.add_configuration_from_key(config_class, registration_key, parent=...)
AddConfigurationFromKey(key, cls, parent) ==
    /\ nCalls < MaxCalls
    /\ DEPENDENCY_DAG' = AddChildrenToGraph(AddKeyToGraph(DEPENDENCY_DAG, key, parent, {}),
                                            key, NewConfiguration(cls, "get_default"))
    /\ REGISTRATION_REGISTRY' =
           Memo(REGISTRATION_REGISTRY, key,
                Partial(nextId, "register_configuration_from_key", cls, "None", key,
                        "get_default"))
    /\ nextId' = nextId + 1
    /\ last' = Call("add_configuration", key, cls, "none", NoComponent, << >>)
    /\ nCalls' = nCalls + 1
    /\ UNCHANGED <<REGISTRY, BINDINGS, BUILT_REGISTRY>>
    /\ UNCHANGED <<objects, lookups>>

\* An add_and_bind that registers and binds at once instead of deferring.
AddAndBind_Eager(key, cls, component_class, parent) ==
    /\ nCalls < MaxCalls
    /\ DEPENDENCY_DAG' = AddChildrenToGraph(AddKeyToGraph(DEPENDENCY_DAG, key, parent, {}),
                                            key, NewConfiguration(cls, "get_default"))
    /\ REGISTRY' = (key :> ConfigurationInfo(cls, "get_default", << >>)) @@ REGISTRY
    /\ BINDINGS' = (key :> component_class) @@ BINDINGS
    /\ last' = Call("add_and_bind", key, cls, "none", NoComponent, << >>)
    /\ nextId' = nextId + 1
    /\ nCalls' = nCalls + 1
    /\ UNCHANGED <<BUILT_REGISTRY, REGISTRATION_REGISTRY>>
    /\ UNCHANGED <<objects, lookups>>

\* An add_and_bind that checks the graph it leaves and raises what the check
\* raises.
AddAndBind_Checked(key, cls, component_class, parent) ==
    /\ nCalls < MaxCalls
    /\ DEPENDENCY_DAG' = AddChildrenToGraph(AddKeyToGraph(DEPENDENCY_DAG, key, parent, {}),
                                            key, NewConfiguration(cls, "get_default"))
    /\ REGISTRATION_REGISTRY' =
           Memo(REGISTRATION_REGISTRY, key,
                Partial(nextId, "register_and_bind", cls, component_class, key,
                        "get_default"))
    /\ nextId' = nextId + 1
    /\ last' = Call("add_and_bind", key, cls, CheckOutcome(DEPENDENCY_DAG'), NoComponent,
                    << >>)
    /\ nCalls' = nCalls + 1
    /\ UNCHANGED <<REGISTRY, BINDINGS, BUILT_REGISTRY>>
    /\ UNCHANGED <<objects, lookups>>

\* Registry.add_and_bind(config_class, component_class, name, ..., parent=...)
AddAndBind(key, cls, component_class, parent) ==
    /\ nCalls < MaxCalls
    /\ DEPENDENCY_DAG' = AddChildrenToGraph(AddKeyToGraph(DEPENDENCY_DAG, key, parent, {}),
                                            key, NewConfiguration(cls, "get_default"))
    /\ REGISTRATION_REGISTRY' =
           Memo(REGISTRATION_REGISTRY, key,
                Partial(nextId, "register_and_bind", cls, component_class, key,
                        "get_default"))
    /\ nextId' = nextId + 1
    /\ last' = Call("add_and_bind", key, cls, "none", NoComponent, << >>)
    /\ nCalls' = nCalls + 1
    /\ UNCHANGED <<REGISTRY, BINDINGS, BUILT_REGISTRY>>
    /\ UNCHANGED <<objects, lookups>>

\* The state add_and_bind_variants leaves, r = [exc, G, pend].
Added(key, cls, r) ==
    /\ DEPENDENCY_DAG' = r.G
    /\ REGISTRATION_REGISTRY' = r.pend
    /\ last' = Call("add_and_bind_variants", key, cls, r.exc, NoComponent, << >>)

\* Registry.add_and_bind_variants(config_class, component_class, name, ...)
AddAndBindVariants(key, cls, component_class) ==
    /\ nCalls < MaxCalls
    /\ LET r == AddAndBindVariantsOp(DEPENDENCY_DAG, REGISTRATION_REGISTRY, nextId,
                                     key, cls, component_class)
       IN  /\ DEPENDENCY_DAG' = r.G
           /\ REGISTRATION_REGISTRY' = r.pend
           /\ last' = Call("add_and_bind_variants", key, cls, r.exc, NoComponent, << >>)
    /\ nextId' = nextId + 1
    /\ nCalls' = nCalls + 1
    /\ UNCHANGED <<REGISTRY, BINDINGS, BUILT_REGISTRY>>
    /\ UNCHANGED <<objects, lookups>>

\* Registry.register_configuration_from_key(config_class, registration_key)
RegisterConfiguration(key, cls) ==
    /\ nCalls < MaxCalls
    /\ LET r == RegisterConfigurationFromKey(REGISTRY, key, cls, "get_default", << >>)
       IN  /\ REGISTRY' = r.reg
           /\ last' = Call("register_configuration", key, cls, r.exc, NoComponent, << >>)
    /\ nCalls' = nCalls + 1
    /\ UNCHANGED <<BINDINGS, BUILT_REGISTRY, DEPENDENCY_DAG, REGISTRATION_REGISTRY,
                   nextId>>
    /\ UNCHANGED <<objects, lookups>>

\* Registry.bind_from_key(registration_key, component_class)
Bind(key, component_class) ==
    /\ nCalls < MaxCalls
    /\ LET r == BindFromKey(REGISTRY, BINDINGS, key, component_class)
       IN  /\ BINDINGS' = r.bnd
           /\ last' = Call("bind", key, component_class, r.exc, NoComponent, << >>)
    /\ nCalls' = nCalls + 1
    /\ UNCHANGED <<REGISTRY, BUILT_REGISTRY, DEPENDENCY_DAG, REGISTRATION_REGISTRY,
                   nextId>>
    /\ UNCHANGED <<objects, lookups>>

\* Registry.register_and_bind(config_class, component_class, name, ...)
RegisterAndBindCall(key, cls, component_class) ==
    /\ nCalls < MaxCalls
    /\ LET r == RegisterAndBind(REGISTRY, BINDINGS, key, cls, component_class,
                                "get_default", << >>)
       IN  /\ REGISTRY' = r.reg
           /\ BINDINGS' = r.bnd
           /\ last' = Call("register_and_bind", key, cls, r.exc, NoComponent, << >>)
    /\ nCalls' = nCalls + 1
    /\ UNCHANGED <<BUILT_REGISTRY, DEPENDENCY_DAG, REGISTRATION_REGISTRY, nextId>>
    /\ UNCHANGED <<objects, lookups>>

\* Registry.build_component_from_key(registration_key, register_built_component)
BuildComponent(key, register_built_component) ==
    /\ LET r == BuildComponentFromKey(REGISTRY, BINDINGS, BUILT_REGISTRY, key,
                                      register_built_component)
       IN  /\ BUILT_REGISTRY' = r.built
           /\ last' = Call("build_component", key, "None", r.exc, r.ret, << >>)
    /\ UNCHANGED <<REGISTRY, BINDINGS, DEPENDENCY_DAG, REGISTRATION_REGISTRY,
                   nextId, nCalls>>
    /\ UNCHANGED <<objects, lookups>>

\* Registry.register_and_bind_variants(config_class, component_class, name,
\* namespace) called directly; the keys it returns are the call's result.
RegisterAndBindVariantsCall(key, cls, component_class) ==
    /\ nCalls < MaxCalls
    /\ LET r == RegisterAndBindVariants(REGISTRY, BINDINGS, cls, component_class, key,
                                        "get_default", << >>, {})
       IN  /\ REGISTRY' = r.reg
           /\ BINDINGS' = r.bnd
           /\ last' = Call("register_and_bind_variants", key, cls, r.exc, r.keys, << >>)
    /\ nCalls' = nCalls + 1
    /\ UNCHANGED <<BUILT_REGISTRY, DEPENDENCY_DAG, REGISTRATION_REGISTRY, nextId>>
    /\ UNCHANGED <<objects, lookups>>

\* Registry.check_registration_graph()
CheckRegistrationGraph ==
    /\ last' = Call("check_registration_graph", NoKey, "None",
                    CheckOutcome(DEPENDENCY_DAG), NoComponent, << >>)
    /\ UNCHANGED <<REGISTRY, BINDINGS, BUILT_REGISTRY, DEPENDENCY_DAG,
                   REGISTRATION_REGISTRY, nextId, nCalls>>
    /\ UNCHANGED <<objects, lookups>>

\* The state the loop of expand_and_resolve_registration leaves,
\* r = [exc, pend, reg, bnd, log].
Resolved(r) ==
    /\ REGISTRY' = r.reg
    /\ BINDINGS' = r.bnd
    /\ REGISTRATION_REGISTRY' = r.pend
    /\ last' = Call("expand_and_resolve_registration", NoKey, "None", r.exc, NoComponent,
                    r.log)

\* Registry.expand_and_resolve_registration(): nx.topological_sort raises
\* NetworkXUnfeasible on a cyclic graph before the loop starts.
ExpandAndResolveRegistration ==
    /\ IF TopologicalSorts(DEPENDENCY_DAG) = {}
       THEN /\ last' = Call("expand_and_resolve_registration", NoKey, "None",
                            "NetworkXUnfeasible", NoComponent, << >>)
            /\ UNCHANGED <<REGISTRY, BINDINGS, REGISTRATION_REGISTRY>>
       ELSE \E sorted \in TopologicalSorts(DEPENDENCY_DAG) :
               Resolved(ResolveLoop(Reversed(sorted), 1, REGISTRATION_REGISTRY,
                                    REGISTRY, BINDINGS, << >>))
    /\ UNCHANGED <<BUILT_REGISTRY, DEPENDENCY_DAG, nextId, nCalls>>
    /\ UNCHANGED <<objects, lookups>>

\* Registry.clear()
Clear ==
    /\ REGISTRY' = EmptyMap
    /\ BINDINGS' = EmptyMap
    /\ BUILT_REGISTRY' = EmptyMap
    /\ DEPENDENCY_DAG' = EmptyGraph
    /\ REGISTRATION_REGISTRY' = EmptyMap
    /\ REGISTERED_NAMESPACES' = << >>
    /\ MODULE_SCOPE' = "None"
    /\ last' = Call("clear", NoKey, "None", "none", NoComponent, << >>)
    /\ UNCHANGED <<nextId, nCalls, loaded, given>>
    /\ UNCHANGED objects

Next ==
    \/ \E d \in AddDeclarations, parent \in Parents :
           AddConfigurationFromKey(d[1], d[2], parent)
    \/ \E d \in BindDeclarations : AddAndBind(d[1], d[2], "CompX", NoKey)
    \/ \E d \in VariantDeclarations : AddAndBindVariants(d[1], d[2], "CompX")
    \/ \E d \in EagerDeclarations : RegisterConfiguration(d[1], d[2])
    \/ \E key \in LookupKeys, c \in ComponentClasses : Bind(key, c)
    \/ \E d \in EagerDeclarations : RegisterAndBindCall(d[1], d[2], "CompX")
    \/ \E key \in LookupKeys, flag \in BOOLEAN : BuildComponent(key, flag)
    \/ CheckRegistrationGraph
    \/ ExpandAndResolveRegistration
    \/ Clear

Spec == Init /\ [][Next]_vars

\* ------------------------------------------- variants: the scenarios
\* (key, configuration class) pairs given to add_and_bind_variants and to
\* register_and_bind_variants: the nested configurations of
\* test_two_level_add_variants and a class with one parameter with variants.
ParameterVariantDeclarations ==
    { <<KeyConfigC, "ConfigC">>, <<KeyConfigD, "ConfigD">>, <<KeyA, "ParamVar">> }

\* (key, configuration class) pairs given to register_and_bind_variants only:
\* config_e, the class with two named variants of tests/test_variants.py and
\* a class with one named variant.
DirectVariantDeclarations ==
    { <<KeyConfigE, "ConfigE">>, <<KeyParent, "ParentConfig">>, <<KeyA, "VarChildB">> }

NextVariants ==
    \/ \E d \in ParameterVariantDeclarations : AddAndBindVariants(d[1], d[2], "CompX")
    \/ AddAndBind(KeyConfigE, "ConfigE", "CompX", NoKey)
    \/ \E d \in ParameterVariantDeclarations \cup DirectVariantDeclarations :
           RegisterAndBindVariantsCall(d[1], d[2], "CompX")
    \/ CheckRegistrationGraph
    \/ ExpandAndResolveRegistration

SpecVariants == Init /\ [][NextVariants]_vars

\* ------------------------------------------- Configuration: the scenarios
\* The registry of the scenarios: KeyB is registered and bound, KeyC is
\* registered and not bound, KeyA is not registered.
ConfigRegistry ==
    RegisterConfigurationFromKey(
        RegisterAndBind(EmptyMap, EmptyMap, KeyB, "Plain", "CompX", "get_default", << >>).reg,
        KeyC, "Plain", "get_default", << >>).reg

ConfigBindings ==
    RegisterAndBind(EmptyMap, EmptyMap, KeyB, "Plain", "CompX", "get_default", << >>).bnd

IntValue(v) == Value("int", v)

IntList == [kind |-> "list", items |-> << IntValue("1"), IntValue("2"), IntValue("3") >>]

\* A configuration with typed parameters and a list (define_configuration
\* and ConfigA of test_configuration.py).
TypedFixture ==
    << Add(Add(Add(ConfigurationInit("ConfigA"),
                   [AddArguments("x", IntValue("10")) EXCEPT !.type_hint = "int"]),
               [AddArguments("y", IntValue("1")) EXCEPT !.type_hint = "int"]),
           [AddArguments("l", Ref("list", 2)) EXCEPT !.type_hint = "List[int]"]),
       IntList >>

\* A configuration with one child and the type the child is built to
\* (test_registration_post_build).
ChildFixture ==
    << Add(ConfigurationInit("Configuration"),
           [AddArguments("child", KeyB) EXCEPT !.is_child = TRUE,
                                               !.build_type_hint = "Component"]) >>

\* A configuration with two children, the second holding `key`.
TwoChildrenFixture(key) ==
    << Add(Add(ConfigurationInit("Configuration"),
               [AddArguments("a", KeyB) EXCEPT !.is_child = TRUE]),
           [AddArguments("b", key) EXCEPT !.is_child = TRUE]) >>

\* A built configuration whose child component has a parameter y.
BuiltFixture ==
    [ PostBuild(<< Add(Add(ConfigurationInit("Configuration"),
                           [AddArguments("x", IntValue("10")) EXCEPT !.type_hint = "int"]),
                       [AddArguments("child", KeyB) EXCEPT !.is_child = TRUE]) >>,
                1, ConfigRegistry, ConfigBindings).heap
      EXCEPT ![2] = Add(@, AddArguments("y", IntValue("5"))) ]

\* Two bool parameters with variants [False, True] (ConfigF of
\* test_variants.py before its condition).
VariantsFixture ==
    << Add(Add(ConfigurationInit("ConfigF"),
               [AddArguments("param_1", True) EXCEPT !.type_hint = "bool",
                    !.variants = << False, True >>, !.has_variants = TRUE]),
           [AddArguments("param_2", True) EXCEPT !.type_hint = "bool",
                !.variants = << False, True >>, !.has_variants = TRUE]) >>

\* ConfigF: add_condition(name='param_equality',
\*                        condition=lambda p: p.param_1 == p.param_2)
ConditionFixture ==
    << AddCondition(VariantsFixture[1],
                    Condition("param_equality", "equal", "param_1", "param_2", "None", {})) >>

Fixtures ==
    { TypedFixture, ChildFixture, BuiltFixture, VariantsFixture, ConditionFixture,
      << ConfigurationInit("Configuration") >> }
    \cup { TwoChildrenFixture(key) : key \in {KeyA, KeyB, KeyC} }

\* The add() and attribute assignments of the scenarios: x is set to an int
\* and to a str, y is added or set to a str.
AddInputs ==
    { AddArguments("x", IntValue("15")),
      AddArguments("x", Value("str", "10")),
      AddArguments("y", Value("str", "1")) }

\* The overrides given to get_delta_copy.
DeltaInputs ==
    { ("x" :> IntValue("15")),
      ("x" :> IntValue("15")) @@ ("y" :> IntValue("2")),
      ("child.y" :> IntValue("9")),
      ("y" :> IntValue("9")) }

NoArguments == AddArguments("None", NoKey)

NoResult == ValidationResult("none", FALSE, "None", "None")

\* The record of a call on a Configuration: the object and the arguments,
\* the exception raised or "none", and what was returned: the copy (ret), the
\* ValidationResult (result) or the combinations.
ConfigCall(op, target, d, strict, kwargs, exc, ret, result, combinations) ==
    [op |-> op, target |-> target, d |-> d, strict |-> strict, kwargs |-> kwargs,
     exc |-> exc, ret |-> ret, result |-> result, combinations |-> combinations]

\* The Configuration objects: those the caller holds and, through them, the
\* configurations of the built children.
Configurations == {i \in DOMAIN heap : heap[i].kind = "Configuration"}

registry == <<REGISTRY, BINDINGS, BUILT_REGISTRY, DEPENDENCY_DAG, REGISTRATION_REGISTRY,
              nextId, lookups>>

InitConfig ==
    /\ REGISTRY = ConfigRegistry
    /\ BINDINGS = ConfigBindings
    /\ BUILT_REGISTRY = EmptyMap
    /\ DEPENDENCY_DAG = AddNode(EmptyGraph, ROOT_KEY)
    /\ REGISTRATION_REGISTRY = EmptyMap
    /\ nextId = 1
    /\ last = ConfigCall("init", 0, NoArguments, FALSE, << >>, "none", 0, NoResult, << >>)
    /\ nCalls = 0
    /\ heap \in Fixtures
    /\ handles = << 1 >>
    /\ REGISTERED_NAMESPACES = << >>
    /\ MODULE_SCOPE = "None"
    /\ loaded = << >>
    /\ given = << >>

\* config.add(...) and config.name = value
ConfigAdd(id, d) ==
    /\ nCalls < MaxConfigCalls
    /\ heap' = [heap EXCEPT ![id] = Add(@, d)]
    /\ last' = ConfigCall("add", id, d, FALSE, << >>, "none", 0, NoResult, << >>)
    /\ nCalls' = nCalls + 1
    /\ UNCHANGED <<registry, handles>>

\* config.name.append(value) on a list value
ListAppend(id, name) ==
    /\ nCalls < MaxConfigCalls
    /\ name \in DOMAIN heap[id].params
    /\ TypeOf(heap[id].params[name].value) = "list"
    /\ heap' = [heap EXCEPT ![heap[id].params[name].value.ref].items = Append(@, IntValue("4"))]
    /\ last' = ConfigCall("append", id, AddArguments(name, IntValue("4")), FALSE, << >>,
                          "none", 0, NoResult, << >>)
    /\ nCalls' = nCalls + 1
    /\ UNCHANGED <<registry, handles>>

\* config.post_build()
ConfigPostBuild(id) ==
    /\ nCalls < MaxConfigCalls
    /\ LET r == PostBuild(heap, id, REGISTRY, BINDINGS)
       IN  /\ heap' = r.heap
           /\ last' = ConfigCall("post_build", id, NoArguments, FALSE, << >>, r.exc, 0,
                                 NoResult, << >>)
    /\ nCalls' = nCalls + 1
    /\ UNCHANGED <<registry, handles>>

\* config.validate(strict)
ConfigValidate(id, strict) ==
    /\ nCalls < MaxConfigCalls
    /\ LET r == Validate(heap, id, strict)
       IN  last' = ConfigCall("validate", id, NoArguments, strict, << >>, r.exc, 0, r, << >>)
    /\ nCalls' = nCalls + 1
    /\ UNCHANGED <<registry, heap, handles>>

\* config.fully_validate(strict)
ConfigFullyValidate(id, strict) ==
    /\ nCalls < MaxConfigCalls
    /\ LET r == FullyValidate(heap, id, strict, REGISTRY, BINDINGS)
       IN  /\ heap' = r.heap
           /\ last' = ConfigCall("fully_validate", id, NoArguments, strict, << >>, r.exc, 0,
                                 ValidationResult(r.exc, r.passed, r.error_message, r.source),
                                 << >>)
    /\ nCalls' = nCalls + 1
    /\ UNCHANGED <<registry, handles>>

\* config.get_delta_copy(**kwargs); the caller keeps the copy.
ConfigGetDeltaCopy(id, kwargs) ==
    /\ nCalls < MaxConfigCalls
    /\ LET r == GetDeltaCopyObject(heap, id, kwargs)
       IN  /\ heap' = r.heap
           /\ handles' = IF r.exc = "none" THEN Append(handles, r.ret) ELSE handles
           /\ last' = ConfigCall("get_delta_copy", id, NoArguments, FALSE, kwargs, r.exc,
                                 r.ret, NoResult, << >>)
    /\ nCalls' = nCalls + 1
    /\ UNCHANGED registry

\* config.get_variants_combinations(validate)
ConfigGetVariantsCombinations(id, validate) ==
    /\ nCalls < MaxConfigCalls
    /\ LET r == GetVariantsCombinationsObject(heap, id, validate, REGISTRY, BINDINGS)
       IN  last' = ConfigCall("get_variants_combinations", id, NoArguments, validate, << >>,
                              r.exc, 0, NoResult, r.combinations)
    /\ nCalls' = nCalls + 1
    /\ UNCHANGED <<registry, heap, handles>>

NextConfig ==
    \/ \E id \in Configurations, d \in AddInputs : ConfigAdd(id, d)
    \/ \E id \in Configurations : ListAppend(id, "l")
    \/ \E id \in Configurations : ConfigPostBuild(id)
    \/ \E id \in Configurations, strict \in BOOLEAN : ConfigValidate(id, strict)
    \/ \E id \in Configurations, strict \in BOOLEAN : ConfigFullyValidate(id, strict)
    \/ \E id \in Configurations, kwargs \in DeltaInputs : ConfigGetDeltaCopy(id, kwargs)
    \/ \E id \in Configurations, validate \in BOOLEAN :
           ConfigGetVariantsCombinations(id, validate)

SpecConfig == InitConfig /\ [][NextConfig]_vars

\* ------------------------------------------- lazy namespace resolution

\* _DEFAULT_PACKAGES[namespace]: the package mapped to a namespace.
PackageName(namespace) == "cinnamon_" \o namespace

\* The key a package registers when its configurations are loaded: the one
\* registration module of the repository (external_test_repo) calls
\* add_and_bind(Configuration, Component, name='test', namespace=<its own>).
PackageKey(namespace) == RegistrationKey("test", {}, namespace)

\* The Registry a lookup may change: the maps, the graph, the table of
\* closures, and the state of the resolution.
RegistryState(reg, bnd, G, pend, id, scope, namespaces, loads) ==
    [reg |-> reg, bnd |-> bnd, G |-> G, pend |-> pend, id |-> id, scope |-> scope,
     namespaces |-> namespaces, loads |-> loads]

\* The outcome of a lookup: the exception raised or "none", the value
\* returned and the Registry as left.
Looked(exc, ret, m) == [exc |-> exc, ret |-> ret, m |-> m]

\* import_and_load_registrations of the package's module: the module is
\* executed, its @register function joins REGISTRATION_METHODS and is called,
\* which is an add_and_bind of the package's key.
ImportAndLoadRegistrations(m, namespace) ==
    [m EXCEPT !.G = AddChildrenToGraph(AddKeyToGraph(m.G, PackageKey(namespace), NoKey, {}),
                                       PackageKey(namespace),
                                       NewConfiguration("Plain", "get_default")),
              !.pend = Memo(m.pend, PackageKey(namespace),
                            Partial(m.id, "register_and_bind", "Plain", "CompX",
                                    PackageKey(namespace), "get_default")),
              !.id = m.id + 1]

\* The orders expand_and_resolve_registration may follow on a graph; << >>
\* stands for none (the graph is cyclic).
Orders(G) == IF TopologicalSorts(G) = {} THEN { << >> } ELSE TopologicalSorts(G)

\* The end of load_registrations, r being what the loop over the closures left.
Loaded(m, r) == [exc |-> r.exc, m |-> [m EXCEPT !.reg = r.reg, !.bnd = r.bnd, !.pend = r.pend]]

\* load_registrations once the modules are imported: check_registration_graph
\* and expand_and_resolve_registration, either of which may raise.
CheckAndExpand(m, sorted) ==
    IF CheckOutcome(m.G) # "none" THEN [exc |-> CheckOutcome(m.G), m |-> m]
    ELSE IF TopologicalSorts(m.G) = {} THEN [exc |-> "NetworkXUnfeasible", m |-> m]
    ELSE Loaded(m, ResolveLoop(Reversed(sorted), 1, m.pend, m.reg, m.bnd, << >>))

\* Registry.load_registrations(directory_path) on the package of a namespace.
\* A closure invoked here looks its key up while MODULE_SCOPE names the
\* package, so that lookup starts no load.
LoadRegistrations(m, namespace, sorted) ==
    CheckAndExpand(ImportAndLoadRegistrations(m, namespace), sorted)

\* try_resolve_module_from_namespace after MODULE_SCOPE is set, r being what
\* load_registrations did: MODULE_SCOPE is reset only when it returns.
ScopeReset(r) ==
    IF r.exc # "none" THEN r ELSE [exc |-> "none", m |-> [r.m EXCEPT !.scope = "None"]]

\* Registry.try_resolve_module_from_namespace(namespace): `installed` are the
\* namespaces whose package can be imported; importing another one raises
\* ModuleNotFoundError, with MODULE_SCOPE already set.
TryResolveModuleFromNamespace(m, namespace, installed, sorted) ==
    IF namespace \notin DefaultPackages THEN [exc |-> "none", m |-> m]
    ELSE IF m.scope # "None" /\ m.scope = PackageName(namespace)
    THEN [exc |-> "none", m |-> m]
    ELSE IF namespace \notin installed
    THEN [exc |-> "ModuleNotFoundError", m |-> [m EXCEPT !.scope = PackageName(namespace)]]
    ELSE ScopeReset(LoadRegistrations([m EXCEPT !.scope = PackageName(namespace),
                                               !.loads = Append(@, namespace)],
                                     namespace, sorted))

\* is_in_registry after the resolution, r = [exc, m].
AfterResolve(r, key) ==
    IF r.exc # "none" THEN Looked(r.exc, FALSE, r.m)
    ELSE Looked("none", key \in DOMAIN r.m.reg, r.m)

\* Registry.is_in_registry(registration_key) with its side effect: a miss
\* on a namespace not in REGISTERED_NAMESPACES tries to load its package.
IsInRegistryResolving(m, key, installed, sorted) ==
    IF key \in DOMAIN m.reg THEN Looked("none", TRUE, m)
    ELSE IF key.namespace \notin SeqToSet(m.namespaces)
    THEN AfterResolve(TryResolveModuleFromNamespace(m, key.namespace, installed, sorted), key)
    ELSE Looked("none", FALSE, m)

\* A partial_match that asks for the other key's tags to be among this key's.
PartialMatch_OneSided(self, other) ==
    /\ self.name = other.name
    /\ self.tags \cap other.tags = other.tags
    /\ self.namespace = other.namespace

\* RegistrationKey.partial_match(other)
PartialMatch(self, other) ==
    /\ self.name = other.name
    /\ \/ self.tags \cap other.tags = other.tags
       \/ self.tags \cap other.tags = self.tags
    /\ self.namespace = other.namespace

\* What retrieve_configurations_from_key returns: None, one ConfigurationInfo
\* or a list; the entries of a list are kept with the key each was read under.
NoneValue == [type |-> "None", items |-> << >>]

Retrieved(type, items) == [type |-> type, items |-> items]

\* `configurations` of retrieve_configurations_from_key: REGISTRY.get(key) or
\* the entries of the keys for which key.partial_match(key) holds, `key`
\* being the loop variable.
FoundConfigurations(reg, key, exact_match) ==
    IF exact_match
    THEN IF key \in DOMAIN reg THEN Retrieved("ConfigurationInfo", (key :> reg[key]))
         ELSE NoneValue
    ELSE Retrieved("list", [k \in {r \in DOMAIN reg : PartialMatch(r, r)} |-> reg[k]])

\* The test that raises NotRegistered: configurations is None, or its type is
\* typing.List (the type of a list is `list`, so this never holds) and some
\* item is None.
NothingFound(configurations) ==
    \/ configurations.type = "None"
    \/ /\ configurations.type = "typing.List"
       /\ \E k \in DOMAIN configurations.items : configurations.items[k] = NoneValue

\* retrieve_configurations_from_key after the lookup that triggers latent
\* registrations, r = Looked(...).
AfterLookup(r, key, exact_match, strict) ==
    IF r.exc # "none" THEN Looked(r.exc, NoneValue, r.m)
    ELSE IF NothingFound(FoundConfigurations(r.m.reg, key, exact_match)) /\ strict
    THEN Looked("NotRegistered", NoneValue, r.m)
    ELSE Looked("none", FoundConfigurations(r.m.reg, key, exact_match), r.m)

\* Registry.retrieve_configurations_from_key(registration_key, exact_match, strict)
RetrieveConfigurationsFromKey(m, key, exact_match, strict, installed, sorted) ==
    AfterLookup(IsInRegistryResolving(m, key, installed, sorted), key, exact_match, strict)

\* --------------------------------------------------- lookups: the scenarios

\* The keys of test_retrieve_multiple_configurations and
\* test_invalid_configuration_retrieval, a key of another name, and two keys
\* of a namespace that has a package: the one the package registers and one
\* it does not.
KeyTag1 == RegistrationKey("test_config", {"tag1"}, "testing")
KeyTag12 == RegistrationKey("test_config", {"tag1", "tag2"}, "testing")
KeyTag2 == RegistrationKey("test_config", {"tag2"}, "testing")
KeyOther == RegistrationKey("other", {"tag1"}, "testing")
KeyMine == RegistrationKey("mine", {}, "generic")

\* The keys registered eagerly and the keys looked up.
RegisteredKeys == {KeyTag1, KeyTag12, KeyOther}

SearchedKeys == {KeyTag1, KeyTag12, KeyTag2, PackageKey("generic"), KeyMine}

\* The record of a lookup: the arguments, the exception raised, the value
\* returned, and the maps as the call found them.
LookupCall(op, key, exact_match, strict, exc, ret, reg, bnd) ==
    [op |-> op, key |-> key, exact_match |-> exact_match, strict |-> strict, exc |-> exc,
     ret |-> ret, reg |-> reg, bnd |-> bnd]

\* The Registry as the state holds it.
Current ==
    RegistryState(REGISTRY, BINDINGS, DEPENDENCY_DAG, REGISTRATION_REGISTRY, nextId,
                  MODULE_SCOPE, REGISTERED_NAMESPACES, loaded)

\* The state a lookup leaves.
Left(m) ==
    /\ REGISTRY' = m.reg
    /\ BINDINGS' = m.bnd
    /\ DEPENDENCY_DAG' = m.G
    /\ REGISTRATION_REGISTRY' = m.pend
    /\ nextId' = m.id
    /\ MODULE_SCOPE' = m.scope
    /\ REGISTERED_NAMESPACES' = m.namespaces
    /\ loaded' = m.loads

\* The environment: the packages of _DEFAULT_PACKAGES that are installed.
InitLookup ==
    /\ REGISTRY = EmptyMap
    /\ BINDINGS = EmptyMap
    /\ BUILT_REGISTRY = EmptyMap
    /\ DEPENDENCY_DAG = AddNode(EmptyGraph, ROOT_KEY)
    /\ REGISTRATION_REGISTRY = EmptyMap
    /\ nextId = 1
    /\ last = LookupCall("init", NoKey, FALSE, FALSE, "none", NoneValue, EmptyMap, EmptyMap)
    /\ nCalls = 0
    /\ heap = << >>
    /\ handles = << >>
    /\ REGISTERED_NAMESPACES = << >>
    /\ MODULE_SCOPE = "None"
    /\ loaded = << >>
    /\ given \in {[installed |-> {}], [installed |-> {"generic"}]}

\* Registry.register_configuration_from_key(Configuration, key) on a key of
\* a namespace without package.
RegisterKey(key) ==
    /\ nCalls < MaxCalls
    /\ LET r == RegisterConfigurationFromKey(REGISTRY, key, "Plain", "get_default", << >>)
       IN  /\ REGISTRY' = r.reg
           /\ last' = LookupCall("register_configuration", key, TRUE, TRUE, r.exc, NoneValue,
                                 REGISTRY, BINDINGS)
    /\ nCalls' = nCalls + 1
    /\ UNCHANGED <<BINDINGS, BUILT_REGISTRY, DEPENDENCY_DAG, REGISTRATION_REGISTRY, nextId>>
    /\ UNCHANGED <<objects, lookups>>

\* Registry.is_in_registry(key)
IsInRegistryCall(key) ==
    /\ \E sorted \in Orders(ImportAndLoadRegistrations(Current, key.namespace).G) :
          LET r == IsInRegistryResolving(Current, key, given.installed, sorted)
          IN  /\ Left(r.m)
              /\ last' = LookupCall("is_in_registry", key, TRUE, FALSE, r.exc,
                                    Retrieved("bool", r.ret), REGISTRY, BINDINGS)
    /\ UNCHANGED <<BUILT_REGISTRY, nCalls, objects, given>>

\* Registry.retrieve_configurations_from_key(key, exact_match, strict)
RetrieveCall(key, exact_match, strict) ==
    /\ \E sorted \in Orders(ImportAndLoadRegistrations(Current, key.namespace).G) :
          LET r == RetrieveConfigurationsFromKey(Current, key, exact_match, strict,
                                                 given.installed, sorted)
          IN  /\ Left(r.m)
              /\ last' = LookupCall("retrieve_configurations_from_key", key, exact_match,
                                    strict, r.exc, r.ret, REGISTRY, BINDINGS)
    /\ UNCHANGED <<BUILT_REGISTRY, nCalls, objects, given>>

NextLookup ==
    \/ \E key \in RegisteredKeys : RegisterKey(key)
    \/ \E key \in SearchedKeys : IsInRegistryCall(key)
    \/ \E key \in SearchedKeys, exact_match \in BOOLEAN, strict \in BOOLEAN :
           RetrieveCall(key, exact_match, strict)

SpecLookup == InitLookup /\ [][NextLookup]_vars

\* ------------------------------------------------ RegistrationKey as text

\* A Python str is the sequence of its characters.
KEY_VALUE_SEPARATOR == <<":">>
ATTRIBUTE_SEPARATOR == <<"-", "-">>

\* The characters of the tags of the scenarios in code point order, which is
\* the order sorted() compares strings by.
Alphabet == <<"1", "2", ":", "t", "x">>

Ord(c) == CHOOSE i \in DOMAIN Alphabet : Alphabet[i] = c

\* str.__lt__: lexicographic comparison.
RECURSIVE Less(_, _)
Less(s, t) ==
    IF t = << >> THEN FALSE
    ELSE IF s = << >> THEN TRUE
    ELSE IF Head(s) # Head(t) THEN Ord(Head(s)) < Ord(Head(t))
    ELSE Less(Tail(s), Tail(t))

\* sorted(list(tags)) of a set of strings.
RECURSIVE Sorted(_)
Sorted(S) ==
    IF S = {} THEN << >>
    ELSE LET least == CHOOSE s \in S : \A t \in S \ {s} : Less(s, t)
         IN  <<least>> \o Sorted(S \ {least})

\* A RegistrationKey object: its fields, and `listing`, the order in which
\* this set object yields its tags when iterated (list(self.tags)).
KeyObject(name, listing, namespace) ==
    [name |-> name, tags |-> SeqToSet(listing), namespace |-> namespace, listing |-> listing]

\* repr of a list of str: ['t1', 't2'] (the tags hold no quote).
RECURSIVE Joined(_, _)
Joined(items, i) ==
    IF i > Len(items) THEN << >>
    ELSE (IF i > 1 THEN <<",", " ">> ELSE << >>) \o <<"'">> \o items[i] \o <<"'">>
             \o Joined(items, i + 1)

Repr(items) == <<"[">> \o Joined(items, 1) \o <<"]">>

\* A __str__ that writes the tags as the set yields them.
Str_Unsorted(self) ==
    <<"n", "a", "m", "e">> \o KEY_VALUE_SEPARATOR \o self.name
        \o ATTRIBUTE_SEPARATOR \o <<"t", "a", "g", "s">> \o KEY_VALUE_SEPARATOR
        \o Repr(self.listing)
        \o ATTRIBUTE_SEPARATOR \o <<"n", "a", "m", "e", "s", "p", "a", "c", "e">>
        \o KEY_VALUE_SEPARATOR \o self.namespace

\* RegistrationKey.__str__: tags is never None after __init__, so the tags
\* segment is always written.
Str(self) ==
    <<"n", "a", "m", "e">> \o KEY_VALUE_SEPARATOR \o self.name
        \o ATTRIBUTE_SEPARATOR \o <<"t", "a", "g", "s">> \o KEY_VALUE_SEPARATOR
        \o Repr(Sorted(self.tags))
        \o ATTRIBUTE_SEPARATOR \o <<"n", "a", "m", "e", "s", "p", "a", "c", "e">>
        \o KEY_VALUE_SEPARATOR \o self.namespace

\* RegistrationKey.__hash__: hash(str(self)); the hash of a str is taken to
\* tell different strings apart.
Hash(self) == Str(self)

\* An __eq__ that compares the names only.
KeyEq_NameOnly(self, other) == self.name = other.name

\* RegistrationKey.__eq__: no field is None after __init__.
KeyEq(self, other) ==
    /\ self.name = other.name
    /\ self.tags = other.tags
    /\ self.namespace = other.namespace

\* The positions where `sep` occurs in `s`.
Occurrences(s, sep) ==
    {i \in 1..(Len(s) - Len(sep) + 1) : SubSeq(s, i, i + Len(sep) - 1) = sep}

\* str.split(sep)
RECURSIVE Split(_, _)
Split(s, sep) ==
    IF Occurrences(s, sep) = {} THEN <<s>>
    ELSE LET i == CHOOSE j \in Occurrences(s, sep) : \A k \in Occurrences(s, sep) : j <= k
         IN  <<SubSeq(s, 1, i - 1)>> \o Split(SubSeq(s, i + Len(sep), Len(s)), sep)

\* ast.literal_eval on the repr of a list of str without quotes or commas.
LiteralEval(value) ==
    IF Len(value) <= 2 THEN << >>
    ELSE LET items == Split(SubSeq(value, 2, Len(value) - 1), <<",", " ">>)
         IN  [i \in DOMAIN items |-> SubSeq(items[i], 2, Len(items[i]) - 1)]

\* The value registration_dict[key] of from_string, or None when no
\* attribute has that key; the last attribute with the key wins.
RECURSIVE Attribute(_, _, _)
Attribute(attributes, key, i) ==
    IF i = 0 THEN << "None" >>
    ELSE IF Split(attributes[i], KEY_VALUE_SEPARATOR)[1] = key
    THEN Split(attributes[i], KEY_VALUE_SEPARATOR)[2]
    ELSE Attribute(attributes, key, i - 1)

\* RegistrationKey.from_string: `key, value = attribute.split(':')` raises
\* ValueError unless the attribute splits in exactly two.
FromString(string_format) ==
    LET attributes == Split(string_format, ATTRIBUTE_SEPARATOR)
    IN  IF \E i \in DOMAIN attributes : Len(Split(attributes[i], KEY_VALUE_SEPARATOR)) # 2
        THEN [exc |-> "ValueError", ret |-> NoKey]
        ELSE [exc |-> "none",
              ret |-> KeyObject(Attribute(attributes, <<"n", "a", "m", "e">>, Len(attributes)),
                                LiteralEval(Attribute(attributes, <<"t", "a", "g", "s">>,
                                                      Len(attributes))),
                                Attribute(attributes,
                                          <<"n", "a", "m", "e", "s", "p", "a", "c", "e">>,
                                          Len(attributes)))]

\* dict.__setitem__ and dict.get on a dict keyed by RegistrationKey: an
\* entry is found through the hash of the key and then __eq__.
DictSet(dict, key, value) ==
    {e \in dict : ~(e.hash = Hash(key) /\ KeyEq(e.key, key))}
        \cup {[key |-> key, hash |-> Hash(key), value |-> value]}

DictGet(dict, key) == {e.value : e \in {f \in dict : f.hash = Hash(key) /\ KeyEq(f.key, key)}}

\* ------------------------------------------------------ keys: the scenarios

Names == { <<"a">>, <<"b">> }

Namespaces == { <<"t">>, <<"g">> }

\* The tags: two plain ones and one that holds the key-value separator.
Tags == { <<"t", "1">>, <<"t", "2">>, <<"x", ":", "1">> }

\* The tags as given to the constructor: up to two tags in either order.
TagListings ==
    { << >> } \cup { <<t>> : t \in Tags }
              \cup { l \in { <<t, u>> : t \in Tags, u \in Tags } : l[1] # l[2] }

GivenKeys == { KeyObject(n, l, ns) : n \in Names, l \in TagListings, ns \in Namespaces }

\* The record of an operation on the two keys at hand.
KeyCall(op, ret, other, exc, text) ==
    [op |-> op, ret |-> ret, other |-> other, exc |-> exc, text |-> text]

InitKeys ==
    /\ REGISTRY = EmptyMap
    /\ BINDINGS = EmptyMap
    /\ BUILT_REGISTRY = EmptyMap
    /\ DEPENDENCY_DAG = AddNode(EmptyGraph, ROOT_KEY)
    /\ REGISTRATION_REGISTRY = EmptyMap
    /\ nextId = 1
    /\ last = KeyCall("init", FALSE, FALSE, "none", << >>)
    /\ nCalls = 0
    /\ heap = << >>
    /\ handles = << >>
    /\ REGISTERED_NAMESPACES = << >>
    /\ MODULE_SCOPE = "None"
    /\ loaded = << >>
    /\ given \in [a : GivenKeys, b : GivenKeys]

\* What no operation on keys touches.
untouched ==
    <<REGISTRY, BINDINGS, BUILT_REGISTRY, DEPENDENCY_DAG, REGISTRATION_REGISTRY, nextId,
      nCalls, objects, lookups>>

\* a == b, with hash(a) == hash(b)
KeysEqual ==
    /\ last' = KeyCall("eq", KeyEq(given.a, given.b), Hash(given.a) = Hash(given.b), "none",
                       << >>)
    /\ UNCHANGED untouched

\* d = {a: 1}; b in d
KeyFound ==
    /\ last' = KeyCall("get", DictGet(DictSet({}, given.a, 1), given.b) # {}, FALSE, "none",
                       << >>)
    /\ UNCHANGED untouched

\* a.partial_match(b), with b.partial_match(a)
KeysMatch ==
    /\ last' = KeyCall("partial_match", PartialMatch(given.a, given.b),
                       PartialMatch(given.b, given.a), "none", << >>)
    /\ UNCHANGED untouched

\* RegistrationKey.from_string(str(a))
KeyParsed ==
    /\ LET r == FromString(Str(given.a))
       IN  last' = KeyCall("from_string", r.ret, r.exc = "none" /\ KeyEq(r.ret, given.a), r.exc,
                           Str(given.a))
    /\ UNCHANGED untouched

NextKeys == KeysEqual \/ KeyFound \/ KeysMatch \/ KeyParsed

SpecKeys == InitKeys /\ [][NextKeys]_vars

\* ----------------------------------------------------- cycle: the scenario

\* test_cycle: config_f (ConfigF, whose child is config_g) and config_g
\* (ConfigG, whose child is config_f) are added with add_configuration; A
\* stands for config_f and B for config_g.
CycleDeclarations == { <<KeyA, "ChildB">>, <<KeyB, "ChildA">> }

NextGraph ==
    \/ \E d \in CycleDeclarations, parent \in Parents :
           AddConfigurationFromKey(d[1], d[2], parent)
    \/ CheckRegistrationGraph
    \/ ExpandAndResolveRegistration
    \/ Clear

SpecGraph == Init /\ [][NextGraph]_vars

\* ------------------------------------------- required: the scenarios
\* test_required_validation (test_configuration.py 199-210): x is added with
\* is_required=True and no value, with the type hint int; beside it the same
\* add() without the type hint, under a name no fixture holds, and with a
\* value.
RequiredInputs ==
    { [AddArguments("x", NoKey) EXCEPT !.is_required = TRUE, !.type_hint = "int"],
      [AddArguments("z", NoKey) EXCEPT !.is_required = TRUE],
      [AddArguments("z", IntValue("15")) EXCEPT !.is_required = TRUE],
      [AddArguments("z", IntValue("15")) EXCEPT !.is_required = TRUE, !.type_hint = "int"] }

NextRequired ==
    \/ \E id \in Configurations, d \in RequiredInputs : ConfigAdd(id, d)
    \/ \E id \in Configurations, strict \in BOOLEAN : ConfigValidate(id, strict)

SpecRequired == InitConfig /\ [][NextRequired]_vars

\* ------------------------------------------- children: the scenarios
\* add_configuration of keys that are new to the graph or already in it as
\* the child of another key, for classes without child, with a child, and
\* with a child that declares variants.
ChildDeclarations ==
    { <<KeyA, "ChildB">>, <<KeyB, "Plain">>, <<KeyB, "ChildVariants">>,
      <<KeyC, "ChildA">> }

NextChildren ==
    \/ \E d \in ChildDeclarations, parent \in Parents :
           AddConfigurationFromKey(d[1], d[2], parent)
    \/ CheckRegistrationGraph
    \/ Clear

SpecChildren == Init /\ [][NextChildren]_vars

\* ------------------------------------------- pending: the scenarios
\* The same key added twice with different classes, and a key that is added
\* on its own and is also the variant key a{v} of add_and_bind_variants.
PendingDeclarations == { <<KeyAv, "Plain">>, <<KeyB, "Plain">>, <<KeyB, "ChildA">> }

NextPending ==
    \/ \E d \in PendingDeclarations : AddConfigurationFromKey(d[1], d[2], NoKey)
    \/ \E d \in BindDeclarations : AddAndBind(d[1], d[2], "CompX", NoKey)
    \/ AddAndBindVariants(KeyA, "VarChildB", "CompX")
    \/ ExpandAndResolveRegistration
    \/ Clear

SpecPending == Init /\ [][NextPending]_vars

\* ------------------------------------------- expansion: the scenarios
\* (key, configuration class) pairs without children given to
\* add_and_bind_variants and register_and_bind_variants: variant lists of
\* sizes 3 and 2, one variant list, and no variants at all.
ExpansionDeclarations ==
    { <<KeyA, "FlatVariants">>, <<KeyB, "Plain">>, <<KeyC, "ParamVar">> }

NextExpansion ==
    \/ \E d \in ExpansionDeclarations : AddAndBindVariants(d[1], d[2], "CompX")
    \/ \E d \in ExpansionDeclarations : RegisterAndBindVariantsCall(d[1], d[2], "CompX")
    \/ ExpandAndResolveRegistration
    \/ Clear

SpecExpansion == Init /\ [][NextExpansion]_vars

\* ------------------------------------------- delta copies: the scenarios
\* get_delta_copy with the overrides of the scenarios on configurations
\* whose children are keys or, after post_build, Components.
NextDelta ==
    \/ \E id \in Configurations : ConfigPostBuild(id)
    \/ \E id \in Configurations, kwargs \in DeltaInputs : ConfigGetDeltaCopy(id, kwargs)

SpecDelta == InitConfig /\ [][NextDelta]_vars

\* ------------------------------------------ delta-copy keys: the scenarios
\* (key, configuration class, combination) triples registered the way the
\* combination loop of register_and_bind_variants registers a combination:
\* constructor get_delta_class_copy, kwargs params / constructor /
\* constructor_kwargs.
DeltaKeyDeclarations ==
    { <<KeyA, "FlatVariants", [x |-> 10, y |-> TRUE]>>,
      <<KeyA, "FlatVariants", [x |-> 15]>>,
      <<KeyB, "ParamVar", [x |-> 2]>>,
      <<KeyB, "FlatVariants", [y |-> TRUE]>> }

\* Registry.register_and_bind(config_class, component_class,
\* config_constructor=config_class.get_delta_class_copy,
\* config_kwargs={'params': c, 'constructor': ..., 'constructor_kwargs': ...})
RegisterDeltaCopy(key, cls, c) ==
    /\ nCalls < MaxCalls
    /\ LET r == RegisterAndBind(REGISTRY, BINDINGS, key, cls, "CompX",
                                "get_delta_class_copy",
                                [params |-> c, constructor |-> "get_default",
                                 constructor_kwargs |-> << >>])
       IN  /\ REGISTRY' = r.reg
           /\ BINDINGS' = r.bnd
           /\ last' = Call("register_and_bind", key, cls, r.exc, NoComponent, << >>)
    /\ nCalls' = nCalls + 1
    /\ UNCHANGED <<BUILT_REGISTRY, DEPENDENCY_DAG, REGISTRATION_REGISTRY, nextId>>
    /\ UNCHANGED <<objects, lookups>>

NextDeltaKey ==
    \/ \E d \in DeltaKeyDeclarations : RegisterDeltaCopy(d[1], d[2], d[3])
    \/ \E d \in EagerDeclarations : RegisterAndBindCall(d[1], d[2], "CompX")
    \/ \E key \in LookupKeys, flag \in BOOLEAN : BuildComponent(key, flag)
    \/ Clear

SpecDeltaKey == Init /\ [][NextDeltaKey]_vars

\* ---------------------------------------- built components: the scenario

\* A register_built_component_from_key that stores the component without
\* looking the key up.
RegisterBuiltComponentFromKey_Unchecked(reg, built, key, component) ==
    [exc |-> "none", built |-> (key :> component) @@ built]

\* Registry.register_built_component_from_key: result [exc, built].
RegisterBuiltComponentFromKey(reg, built, key, component) ==
    IF ~IsInRegistry(reg, key) THEN [exc |-> "NotRegistered", built |-> built]
    ELSE [exc |-> "none", built |-> (key :> component) @@ built]

\* Registry.register_built_component_from_key(component, registration_key),
\* the component having been built by the caller.
RegisterBuiltComponent(key, component_class) ==
    /\ LET r == RegisterBuiltComponentFromKey(
                    REGISTRY, BUILT_REGISTRY, key,
                    Component(component_class, NewConfiguration("Plain", "get_default")))
       IN  /\ BUILT_REGISTRY' = r.built
           /\ last' = Call("register_built_component", key, component_class, r.exc,
                           NoComponent, << >>)
    /\ UNCHANGED <<REGISTRY, BINDINGS, DEPENDENCY_DAG, REGISTRATION_REGISTRY,
                   nextId, nCalls>>
    /\ UNCHANGED <<objects, lookups>>

\* Every operation of the Registry that writes REGISTRY, BINDINGS or
\* BUILT_REGISTRY.
NextBuilt ==
    \/ \E d \in BindDeclarations : AddAndBind(d[1], d[2], "CompX", NoKey)
    \/ \E d \in EagerDeclarations : RegisterConfiguration(d[1], d[2])
    \/ \E key \in LookupKeys, c \in ComponentClasses : Bind(key, c)
    \/ \E d \in EagerDeclarations : RegisterAndBindCall(d[1], d[2], "CompX")
    \/ \E d \in ExpansionDeclarations : RegisterAndBindVariantsCall(d[1], d[2], "CompX")
    \/ \E key \in LookupKeys, flag \in BOOLEAN : BuildComponent(key, flag)
    \/ \E key \in LookupKeys, c \in ComponentClasses : RegisterBuiltComponent(key, c)
    \/ ExpandAndResolveRegistration
    \/ Clear

SpecBuilt == Init /\ [][NextBuilt]_vars

\* ------------------------------------------------------------ properties

Expanded == last.op = "expand_and_resolve_registration"
Checked == last.op = "check_registration_graph"
Built == last.op = "build_component"
Adds == {"add_configuration", "add_and_bind", "add_and_bind_variants"}

\* The identities of the closures a log invoked / a table holds.
InvokedIds(log) == {log[i].closure.id : i \in 1..Len(log)}
PendingIds(pend) == {pend[k].id : k \in DOMAIN pend}

\* A cycle: a node reachable from one of its successors.
Successors(G, S) == {e[2] : e \in {f \in G.edges : f[1] \in S}}
RECURSIVE ReachableFrom(_, _, _)
ReachableFrom(G, S, n) ==
    IF n = 0 THEN S ELSE ReachableFrom(G, S \cup Successors(G, S), n - 1)
HasCycle(G) ==
    \E v \in G.nodes : v \in ReachableFrom(G, Successors(G, {v}), Cardinality(G.nodes))

\* The incoming edges of a node, and the root edges the specification calls
\* spurious: root -> n for a node n that also has a non-root incoming edge.
InEdges(G, n) == {e \in G.edges : e[2] = n}
SpuriousRootEdges(G) ==
    {e \in G.edges : e[1] = ROOT_KEY /\ \E f \in InEdges(G, e[2]) : f[1] # ROOT_KEY}
Dangling(G) ==
    {n \in G.nodes \ {ROOT_KEY} : InEdges(G, n) \ SpuriousRootEdges(G) = {}}

\* C1 (as the specification states it): whenever expand invokes the closure
\* of a key P, through P itself or through a key aliasing it, no key C with
\* an edge P -> C is still waiting in the pending table.
C1_ChildrenInvokedBeforeParent ==
    Expanded =>
        \A i \in 1..Len(last.log) :
            \A C \in last.log[i].pending \ last.log[i].aliases :
                <<last.log[i].closure.key, C>> \notin DEPENDENCY_DAG.edges

C3_AlreadyRegisteredChangesNothing ==
    [][ ( \/ last'.op = "register_configuration" /\ last'.key \in DOMAIN REGISTRY
          \/ /\ last'.op = "register_and_bind"
             /\ last'.key \in DOMAIN REGISTRY
             /\ last'.key \in DOMAIN BINDINGS )
        => /\ last'.exc = "AlreadyRegistered"
           /\ UNCHANGED <<REGISTRY, BINDINGS, BUILT_REGISTRY, DEPENDENCY_DAG,
                          REGISTRATION_REGISTRY>>
      ]_vars

\* register_and_bind was refused on a key that is registered and bound.
C3_Witness ==
    /\ last.op = "register_and_bind"
    /\ last.exc = "AlreadyRegistered"
    /\ last.key \in DOMAIN REGISTRY
    /\ last.key \in DOMAIN BINDINGS

\* C4: bind_from_key raises NotRegistered on an unregistered key and
\* AlreadyBound on a bound one, leaving BINDINGS as it was; short of clear(),
\* no operation removes or changes a binding.
C4_BindingsWriteOnce ==
    [][ /\ (last'.op = "bind" /\ last'.key \notin DOMAIN REGISTRY) =>
              last'.exc = "NotRegistered" /\ BINDINGS' = BINDINGS
        /\ (last'.op = "bind" /\ last'.key \in DOMAIN REGISTRY
                              /\ last'.key \in DOMAIN BINDINGS) =>
              last'.exc = "AlreadyBound" /\ BINDINGS' = BINDINGS
        /\ (last'.op # "clear") =>
              \A k \in DOMAIN BINDINGS : k \in DOMAIN BINDINGS' /\ BINDINGS'[k] = BINDINGS[k]
      ]_vars

\* A bind with another class was refused and the first binding stands.
C4_Witness ==
    /\ last.op = "bind"
    /\ last.exc = "AlreadyBound"
    /\ BINDINGS[last.key] # last.cls

\* C5: building an unregistered key raises NotRegistered, building a
\* registered key without a binding raises NotBound, and neither returns or
\* stores a component.
C5_BuildNeedsRegistrationAndBinding ==
    Built =>
        /\ last.key \notin DOMAIN REGISTRY =>
               last.exc = "NotRegistered" /\ last.ret = NoComponent
        /\ (last.key \in DOMAIN REGISTRY /\ last.key \notin DOMAIN BINDINGS) =>
               last.exc = "NotBound" /\ last.ret = NoComponent

\* A build of a registered key without a binding was refused.
C5_Witness ==
    /\ Built
    /\ last.key \in DOMAIN REGISTRY
    /\ last.exc = "NotBound"

\* C6 (as the specification states it): the component a build returns holds
\* a configuration that went through post_build(): `built` is set and no
\* child parameter still holds a RegistrationKey.
C6_BuildRunsPostBuild ==
    (Built /\ last.exc = "none") =>
        /\ last.ret.config.params["built"].value = TRUE
        /\ \A p \in Children(last.ret.config) :
               last.ret.config.params[p].value \notin DEPENDENCY_DAG.nodes \cup DOMAIN REGISTRY

C8_DanglingRaisesDisconnected ==
    Checked =>
        /\ Dangling(DEPENDENCY_DAG) # {} => last.exc = "DisconnectedGraph"
        /\ (Dangling(DEPENDENCY_DAG) = {} /\ ~HasCycle(DEPENDENCY_DAG)) => last.exc = "none"

\* C9 (as the specification states it): when a key has a root edge and is
\* also the child of another key, the check on an otherwise sound graph
\* returns true and leaves no such root edge in the graph.
C9_CheckPrunesSpuriousRootEdges ==
    [][ ( /\ last'.op = "check_registration_graph"
          /\ SpuriousRootEdges(DEPENDENCY_DAG) # {}
          /\ Dangling(DEPENDENCY_DAG) = {}
          /\ ~HasCycle(DEPENDENCY_DAG) )
        => /\ last'.exc = "none"
           /\ SpuriousRootEdges(DEPENDENCY_DAG') = {}
      ]_vars

\* C10: the add_* calls leave REGISTRY, BINDINGS and BUILT_REGISTRY as they
\* were: a key enters REGISTRY or BINDINGS only by an expand or an eager
\* registration, and the add_configuration / add_and_bind closure expand
\* invokes with success is what registers (and binds) the added key.
C10_AddsOnlyDefer ==
    [][ /\ last'.op \in Adds => UNCHANGED <<REGISTRY, BINDINGS, BUILT_REGISTRY>>
        /\ (last'.op = "expand_and_resolve_registration") =>
              \A i \in 1..Len(last'.log) :
                  (/\ last'.log[i].exc = "none"
                   /\ last'.log[i].closure.key \notin DOMAIN REGISTRY) =>
                      /\ last'.log[i].closure.func = "register_configuration_from_key" =>
                             last'.log[i].closure.key \in DOMAIN REGISTRY'
                      /\ last'.log[i].closure.func = "register_and_bind" =>
                             /\ last'.log[i].closure.key \in DOMAIN REGISTRY'
                             /\ last'.log[i].closure.key \in DOMAIN BINDINGS'
                             /\ BINDINGS'[last'.log[i].closure.key] =
                                    last'.log[i].closure.component_class
      ]_vars

\* An expand registered and bound a key that add_and_bind had deferred.
C10_Witness ==
    /\ Expanded
    /\ \E i \in 1..Len(last.log) :
           /\ last.log[i].closure.func = "register_and_bind"
           /\ last.log[i].exc = "none"
           /\ last.log[i].closure.key \in DOMAIN REGISTRY
           /\ BINDINGS[last.log[i].closure.key] = last.log[i].closure.component_class

\* C11 (as the specification states it): after clear() every registry map and
\* the pending table are empty and the graph is the initial one, holding
\* exactly the root node and no edge.
C11_ClearRestoresInitialGraph ==
    (last.op = "clear") =>
        /\ REGISTRY = EmptyMap
        /\ BINDINGS = EmptyMap
        /\ BUILT_REGISTRY = EmptyMap
        /\ REGISTRATION_REGISTRY = EmptyMap
        /\ DEPENDENCY_DAG = AddNode(EmptyGraph, ROOT_KEY)

\* -------------------------------------------- properties: Configuration

PostBuilt == last.op = "post_build"

\* C12: the `built` flag of a configuration goes from False to True only in
\* a post_build() of that configuration that raises nothing (called directly
\* or by fully_validate()), and never goes back, so it does so once; a
\* post_build() of a built configuration changes no object at all: no child is
\* resolved again and no parameter value changes.
C12_BuiltOnceByPostBuild ==
    [][ /\ \A id \in Configurations :
              /\ IsBuilt(heap[id]) => IsBuilt(heap'[id])
              /\ (~IsBuilt(heap[id]) /\ IsBuilt(heap'[id])) =>
                     /\ last'.target = id
                     /\ \/ last'.op = "post_build" /\ last'.exc = "none"
                        \/ last'.op = "fully_validate"
        /\ (last'.op = "post_build" /\ IsBuilt(heap[last'.target])) =>
               (heap' = heap /\ last'.exc = "none") ]_vars

\* A post_build() that has just resolved the two children of a configuration.
C12_Witness ==
    /\ PostBuilt /\ last.exc = "none" /\ last.target = 1 /\ nCalls = 1
    /\ DOMAIN heap[1].params = {"a", "b", "built"}
    /\ IsBuilt(heap[1])
    /\ TypeOf(heap[1].params["a"].value) = "Component"
    /\ TypeOf(heap[1].params["b"].value) = "Component"

\* The positions of the children of a configuration whose key the Registry
\* cannot build: it is not registered, or registered and not bound.
FailingChildren(config) ==
    {i \in DOMAIN config.order :
        /\ config.params[config.order[i]].is_child
        /\ TypeOf(config.params[config.order[i]].value) = "RegistrationKey"
        /\ \/ config.params[config.order[i]].value \notin DOMAIN REGISTRY
           \/ config.params[config.order[i]].value \notin DOMAIN BINDINGS}

\* The error of build_component_from_key for such a key.
ChildError(key) == IF key \notin DOMAIN REGISTRY THEN "NotRegistered" ELSE "NotBound"

Min(S) == CHOOSE i \in S : \A j \in S : i <= j

\* C13: a post_build() that raises leaves `built` False; when the children
\* of a configuration that is not built all hold keys and the key of one of
\* them cannot be built, post_build() raises the error of the first such child
\* (NotRegistered or NotBound) to the caller.
C13_FailedPostBuildIsNotBuilt ==
    [][ (last'.op = "post_build" /\ ~IsBuilt(heap[last'.target])) =>
           /\ (last'.exc # "none") => ~IsBuilt(heap'[last'.target])
           /\ ( /\ FailingChildren(heap[last'.target]) # {}
                /\ \A n \in DOMAIN heap[last'.target].params :
                       TypeOf(heap[last'.target].params[n].value) # "Component" )
              => last'.exc = ChildError(heap[last'.target].params[
                     heap[last'.target].order[Min(FailingChildren(heap[last'.target]))]].value)
      ]_vars

\* The second of two children is registered and not bound: post_build() has
\* raised NotBound after it resolved the first child.
C13_Witness ==
    /\ PostBuilt /\ last.exc = "NotBound" /\ last.target = 1
    /\ DOMAIN heap[1].params = {"a", "b", "built"}
    /\ TypeOf(heap[1].params["a"].value) = "Component"
    /\ heap[1].params["b"].value = KeyC
    /\ ~IsBuilt(heap[1])

Validated == last.op = "validate"

\* The tag add() gives the typechecks of the stage a configuration is not in.
OtherStage(config) == IF IsBuilt(config) THEN "pre-built" ELSE "post-built"

\* The conditions of the stage a configuration is in, in insertion order.
StageConditions(config) ==
    SelectSeq(config.conditions,
              LAMBDA c : "condition" \in c.tags /\ OtherStage(config) \notin c.tags)

\* C15 (as the specification states it): a validate() evaluates no condition
\* of the other stage: none tagged post-built on a configuration that is not
\* built, none tagged pre-built on a built one.
C15_OnlyTheCurrentStage ==
    Validated =>
        \A i \in DOMAIN last.result.evaluated :
            OtherStage(heap[last.target]) \notin last.result.evaluated[i].tags

\* The positions of the conditions of the current stage that do not hold.
FailingConditions(config) ==
    {i \in DOMAIN StageConditions(config) :
        EvalCondition(heap, config, StageConditions(config)[i]) # "True"}

\* The outcome of validate(strict) the first failing condition `c` decides.
DecidedBy(config, c, strict) ==
    /\ last.exc = (IF strict THEN "ValidationFailure" ELSE "none")
    /\ ~last.result.passed
    /\ last.result.error_message = "Condition " \o c.name \o " failed!"
    /\ last.result.source = config.class_type

\* C14 (as the specification states it): a validate() whose children, if
\* any, are valid evaluates the conditions of the current stage in insertion
\* order up to the first that fails; that one decides: ValidationFailure when
\* strict, else passed = false with 'Condition <name> failed!'; if none fails
\* every condition of the stage is evaluated and the result is passed = true.
C14_FirstFailingConditionOfTheStage ==
    ( /\ Validated
      /\ IsBuilt(heap[last.target]) =>
             IsPassed(ValidateChildren(heap, heap[last.target], last.strict, 1)) )
    => IF FailingConditions(heap[last.target]) = {}
       THEN /\ last.exc = "none" /\ last.result.passed
            /\ last.result.evaluated = StageConditions(heap[last.target])
       ELSE /\ last.result.evaluated =
                   SubSeq(StageConditions(heap[last.target]), 1,
                          Min(FailingConditions(heap[last.target])))
            /\ DecidedBy(heap[last.target],
                         StageConditions(heap[last.target])[
                             Min(FailingConditions(heap[last.target]))],
                         last.strict)

RECURSIVE Unfold(_, _)

RECURSIVE UnfoldConfiguration(_, _)

\* A value with the objects it refers to in place of the references.
Unfold(h, value) ==
    IF ~IsRef(value) THEN value
    ELSE IF h[value.ref].kind = "list"
         THEN [t |-> "list",
               items |-> [i \in DOMAIN h[value.ref].items |-> Unfold(h, h[value.ref].items[i])]]
         ELSE [t |-> "Component", component_class |-> h[value.ref].component_class,
               config |-> UnfoldConfiguration(h, h[value.ref].config)]

\* What a configuration looks like to its holder: its parameters with their
\* values unfolded, and its conditions.
UnfoldConfiguration(h, id) ==
    [class_type |-> h[id].class_type, order |-> h[id].order, conditions |-> h[id].conditions,
     params |-> [p \in DOMAIN h[id].params |->
                    [h[id].params[p] EXCEPT !.value = Unfold(h, h[id].params[p].value)]]]

\* The overrides applied to what a configuration looks like.
Overridden(c, kwargs) ==
    [c EXCEPT !.params = [p \in DOMAIN c.params |->
                             IF p \in DOMAIN kwargs
                             THEN [c.params[p] EXCEPT !.value = kwargs[p]]
                             ELSE c.params[p]]]

HasBuiltChildWithY(h, id) ==
    /\ "child" \in DOMAIN h[id].params
    /\ TypeOf(h[id].params["child"].value) = "Component"
    /\ "y" \in DOMAIN h[h[h[id].params["child"].value.ref].config].params

\* C17 (as the specification states it): get_delta_copy with the override
\* 'child.y' on a configuration whose child is a built Component raises
\* nothing; the copy differs from the original in the parameter y of the
\* configuration of its child only, and the original does not change.
C17_NestedOverrideReachesTheChild ==
    [][ ( /\ last'.op = "get_delta_copy"
          /\ last'.kwargs = ("child.y" :> IntValue("9"))
          /\ HasBuiltChildWithY(heap, last'.target) )
        => /\ last'.exc = "none"
           /\ \A i \in DOMAIN heap : heap'[i] = heap[i]
           /\ UnfoldConfiguration(heap', last'.ret)
                 = [UnfoldConfiguration(heap, last'.target)
                       EXCEPT !.params["child"].value.config.params["y"].value = IntValue("9")]
      ]_vars

\* The variant lists of a configuration, by parameter.
VariantLists(config) ==
    [p \in {q \in DOMAIN config.params : Len(config.params[q].variants) > 0} |->
        config.params[p].variants]

\* The delta copy of the configuration `id` with the overrides of a
\* combination passes the full validation that is not strict.
IsValidCombination(h, id, combination) ==
    /\ GetDeltaCopyObject(h, id, combination).exc = "none"
    /\ IsPassed(FullyValidate(GetDeltaCopyObject(h, id, combination).heap,
                              GetDeltaCopyObject(h, id, combination).ret,
                              FALSE, REGISTRY, BINDINGS))

\* C18 (as the specification states it): get_variants_combinations with
\* validate = true raises nothing and returns, in the order of the cross
\* product, exactly the combinations whose delta copy passes the full
\* validation that is not strict: 4 for two bool parameters with variants
\* [False, True], 2 when the condition param_1 == param_2 is added.
C18_ValidCombinationsAreReturned ==
    (last.op = "get_variants_combinations" /\ last.strict)
    => /\ last.exc = "none"
       /\ last.combinations =
             SelectSeq(GetDictValuesCombinations(VariantLists(heap[last.target])),
                       LAMBDA c : IsValidCombination(heap, last.target, c))
       /\ (\E i \in DOMAIN heap[last.target].conditions :
               heap[last.target].conditions[i].name = "param_equality")
             => Len(last.combinations) = 2

\* ------------------------------------------------- properties: variants

\* The cross product of the variant lists of the default configuration of a
\* class.
VariantsProduct(cls) ==
    GetDictValuesCombinations(
        [p \in {q \in DOMAIN NewConfiguration(cls, "get_default").params :
                    NewConfiguration(cls, "get_default").params[q].has_variants} |->
            NewConfiguration(cls, "get_default").params[p].variants])

\* The keys of test_two_level_add_variants that have been added and not
\* resolved yet.
PendingOfTheTest(pend) == DOMAIN pend \cap {KeyConfigC, KeyConfigD, KeyConfigE}

\* The additions of test_two_level_add_variants, taken in its order.
AddedInOrder(call, pend) ==
    \/ /\ call.op = "add_and_bind_variants" /\ call.key = KeyConfigC
       /\ PendingOfTheTest(pend) = {}
    \/ /\ call.op = "add_and_bind_variants" /\ call.key = KeyConfigD
       /\ PendingOfTheTest(pend) = {KeyConfigC}
    \/ /\ call.op = "add_and_bind" /\ call.key = KeyConfigE
       /\ PendingOfTheTest(pend) = {KeyConfigC, KeyConfigD}

\* C19 (as the specification states it): config_c and config_d are added
\* with add_and_bind_variants and config_e with add_and_bind, in this order,
\* to an empty Registry; no addition raises and check_registration_graph()
\* succeeds on the graph each leaves; expand_and_resolve_registration() then
\* raises nothing and leaves exactly 36 keys in REGISTRY.
C19_TwoLevelVariantsExpandTo36 ==
    [][ /\ ( /\ REGISTRY = EmptyMap
             /\ DOMAIN REGISTRATION_REGISTRY \subseteq PendingOfTheTest(REGISTRATION_REGISTRY)
             /\ AddedInOrder(last', REGISTRATION_REGISTRY) )
           => /\ last'.exc = "none"
              /\ CheckOutcome(DEPENDENCY_DAG') = "none"
        /\ ( /\ REGISTRY = EmptyMap
             /\ last'.op = "expand_and_resolve_registration"
             /\ PendingOfTheTest(REGISTRATION_REGISTRY) = {KeyConfigC, KeyConfigD, KeyConfigE}
             /\ KeyA \notin DEPENDENCY_DAG.nodes )
           => /\ last'.exc = "none"
              /\ Cardinality(DOMAIN REGISTRY') = 36
      ]_vars

\* C20 (as the specification states it): register_and_bind_variants of a
\* class without children raises nothing, and for every combination of the
\* variants of its parameters the key (name, T, namespace) is registered, T
\* being the tags of the call together with '{param}={value}' for a scalar
\* override and, for a RegistrationKey override, '{param}.{tag}' per tag and
\* '{param}.{namespace}' when the namespace differs; the call returns these
\* keys and the base key, and registers no other key of that name.
C20_CombinationKeysAreRegistered ==
    ( /\ last.op = "register_and_bind_variants"
      /\ Children(NewConfiguration(last.cls, "get_default")) = {} )
    => /\ last.exc = "none"
       /\ {k \in DOMAIN REGISTRY : k.name = last.key.name}
            = {last.key} \cup
              { RegistrationKey(last.key.name,
                                last.key.tags \cup
                                    CombinationTags(NewConfiguration(last.cls, "get_default"),
                                                    VariantsProduct(last.cls)[j],
                                                    last.key.namespace),
                                last.key.namespace)
                : j \in DOMAIN VariantsProduct(last.cls) }
       /\ {last.ret[j] : j \in DOMAIN last.ret}
            = {k \in DOMAIN REGISTRY : k.name = last.key.name}

\* ------------------------------------------------ properties: idempotence

RegisteredVariants == last.op = "register_and_bind_variants"

\* A step that is a register_and_bind_variants call repeating the call before
\* it (same key, same configuration class; the component class is the same
\* in every call of the scenarios).
RepeatedCall == RegisteredVariants /\ last'.op = last.op /\ last'.key = last.key /\ last'.cls = last.cls

Retrieving == last.op = "retrieve_configurations_from_key"

\* The lookups on a namespace without package: no load can interfere.
RetrievingLocally == Retrieving /\ last.key.namespace \notin DefaultPackages

\* The entries of the registered keys that partially match `key`.
PartialMatches(reg, key) == [k \in {r \in DOMAIN reg : PartialMatch(r, key)} |-> reg[k]]

\* C22: retrieve_configurations_from_key(k, exact_match=false) returns the
\* ConfigurationInfo of exactly the registered keys that partially match k
\* (same name, same namespace, the tags of one a subset of the other's) and
\* of no other key; with exact_match=true it returns the entry stored under
\* k itself.
C22_RetrieveReturnsThePartialMatches ==
    (RetrievingLocally /\ last.exc = "none") =>
        IF last.exact_match
        THEN last.key \in DOMAIN REGISTRY =>
                 last.ret = Retrieved("ConfigurationInfo", (last.key :> REGISTRY[last.key]))
        ELSE last.ret = Retrieved("list", PartialMatches(REGISTRY, last.key))

\* No configuration is found for `key`: it is not registered (exact match),
\* or no registered key partially matches it.
NoneFound(reg, key, exact_match) ==
    IF exact_match THEN key \notin DOMAIN reg
    ELSE DOMAIN PartialMatches(reg, key) = {}

\* C23: with strict=true retrieve_configurations_from_key raises
\* NotRegistered whenever no configuration is found, in exact-match mode and
\* in partial-match mode alike; with strict=false it returns an empty result
\* without raising; in both cases the registry maps are unchanged.
C23_StrictRaisesWhenNothingIsFound ==
    (RetrievingLocally /\ NoneFound(REGISTRY, last.key, last.exact_match)) =>
        /\ last.strict => last.exc = "NotRegistered"
        /\ ~last.strict =>
               /\ last.exc = "none"
               /\ last.ret \in {NoneValue, Retrieved("list", << >>)}
        /\ REGISTRY = last.reg
        /\ BINDINGS = last.bnd

\* The loads of the package of a namespace made so far.
Loads(namespace) == Cardinality({i \in DOMAIN loaded : loaded[i] = namespace})

\* C27: the package mapped to a namespace is loaded at most once per
\* namespace over any sequence of lookups (later misses on the namespace and
\* misses while it is being resolved load nothing more), and a namespace
\* without package mapping is never loaded.
C27_PackageLoadedAtMostOnce ==
    \A i \in DOMAIN loaded : loaded[i] \in DefaultPackages /\ Loads(loaded[i]) <= 1

\* ---------------------------------------------------- properties: keys

\* The two keys at hand have the same name, namespace and set of tags, the
\* tags taken as they were given.
SameFields ==
    /\ given.a.name = given.b.name
    /\ given.a.namespace = given.b.namespace
    /\ SeqToSet(given.a.listing) = SeqToSet(given.b.listing)

\* C24: partial_match(a, b) holds iff a.name == b.name, a.namespace ==
\* b.namespace and the tag set of one key is a subset of the other's (in
\* either direction, both empty included); so it is symmetric in a and b and
\* holds whenever a == b.
C24_PartialMatchIsTheTwoSidedSubsetRule ==
    last.op = "partial_match" =>
        /\ last.ret = (/\ given.a.name = given.b.name
                       /\ given.a.namespace = given.b.namespace
                       /\ \/ given.a.tags \subseteq given.b.tags
                          \/ given.b.tags \subseteq given.a.tags)
        /\ last.other = last.ret
        /\ KeyEq(given.a, given.b) => last.ret

\* a.partial_match(b) held with the tags of b strictly among those of a.
C24_Witness ==
    /\ last.op = "partial_match"
    /\ last.ret
    /\ given.b.tags # {}
    /\ given.b.tags \subseteq given.a.tags
    /\ given.a.tags # given.b.tags

\* C25: two RegistrationKeys are equal iff their names, namespaces and tag
\* sets are equal, whatever the order in which the tags were given; equal
\* keys have equal hashes, so a key stored in a dict is found under any
\* ordering of its tags.
C25_EqualityIgnoresTagOrder ==
    /\ last.op = "eq" =>
           /\ last.ret = SameFields
           /\ last.ret => last.other
    /\ last.op = "get" => last.ret = SameFields

\* A key stored under two tags was found with the tags given in the other order.
C25_Witness ==
    /\ last.op = "get"
    /\ last.ret
    /\ Len(given.a.listing) = 2
    /\ given.a.listing # given.b.listing

\* C26: for every RegistrationKey k, one with an empty tag set included,
\* from_string(to_string(k)) == k.
C26_FromStringInvertsToString ==
    last.op = "from_string" => (last.exc = "none" /\ KeyEq(last.ret, given.a))

\* ----------------------------------------------- properties: graph errors

GraphErrors == {"DisconnectedGraph", "NotADAG"}

\* C28: no graph-mutating operation (add_configuration, add_and_bind,
\* add_and_bind_variants) raises DisconnectedGraph or NotADAG, even when it
\* leaves the graph cyclic or with a dangling node; the two errors come only
\* from check_registration_graph().
C28_GraphErrorsOnlyFromTheCheck ==
    /\ last.op \in Adds => last.exc \notin GraphErrors
    /\ last.exc \in GraphErrors => Checked

\* An add_* call returned leaving a cycle in the graph, with a node that has
\* no incoming edge besides.
C28_Witness ==
    /\ last.op \in Adds
    /\ last.exc = "none"
    /\ HasCycle(DEPENDENCY_DAG)
    /\ Dangling(DEPENDENCY_DAG) # {}


\* The two configurations that declare each other as child are in the graph.
MutualChildren == {<<KeyA, KeyB>>, <<KeyB, KeyA>>} \subseteq DEPENDENCY_DAG.edges

RequiredParameters(config) ==
    { config.conditions[i].param :
          i \in { j \in DOMAIN config.conditions : config.conditions[j].kind = "is_required" } }

\* A required parameter of the validated configuration has no value.
RequiredIsNull ==
    /\ Validated
    /\ \E name \in RequiredParameters(heap[last.target]) :
           heap[last.target].params[name].value = NoKey

\* C29: validate() fails when a parameter added with is_required=True has
\* the value None, with or without a type hint: the result is not passed,
\* and ValidationFailure is raised when strict.
C29_RequiredNullFailsValidation ==
    RequiredIsNull =>
        /\ ~IsPassed(last.result)
        /\ last.strict => last.exc = "ValidationFailure"

\* ------------------------------------------ properties: deferred adds

\* The keys the child parameters of a fresh configuration of the class hold:
\* their values and their declared variants.
ChildTargets(cls) ==
    UNION { (IF NewConfiguration(cls, "get_default").params[p].value # NoKey
             THEN {NewConfiguration(cls, "get_default").params[p].value} ELSE {})
            \cup SeqToSet(NewConfiguration(cls, "get_default").params[p].variants)
          : p \in Children(NewConfiguration(cls, "get_default")) }

\* C31: add_configuration_from_key(k, ...) adds k with the edge root -> k
\* only when k is not yet a node of the graph; for every child parameter of
\* the fresh configuration holding a key c it adds the edge k -> c, and for
\* every declared child variant v the edge k -> v; c and v become nodes
\* without a root edge when they were missing. Nothing else is added beside
\* the edge from a given parent.
C31_AddConfigurationGraphEffect ==
    [][ last'.op = "add_configuration" =>
            /\ last'.key \in DEPENDENCY_DAG'.nodes
            /\ last'.key \notin DEPENDENCY_DAG.nodes =>
                   <<ROOT_KEY, last'.key>> \in DEPENDENCY_DAG'.edges
            /\ last'.key \in DEPENDENCY_DAG.nodes =>
                   (<<ROOT_KEY, last'.key>> \in DEPENDENCY_DAG'.edges
                       <=> <<ROOT_KEY, last'.key>> \in DEPENDENCY_DAG.edges)
            /\ \A t \in ChildTargets(last'.cls) :
                   /\ t \in DEPENDENCY_DAG'.nodes
                   /\ <<last'.key, t>> \in DEPENDENCY_DAG'.edges
                   /\ (t \notin DEPENDENCY_DAG.nodes /\ t # last'.key) =>
                          <<ROOT_KEY, t>> \notin DEPENDENCY_DAG'.edges
            /\ DEPENDENCY_DAG'.edges \ DEPENDENCY_DAG.edges \subseteq
                   {<<ROOT_KEY, last'.key>>}
                   \cup {<<last'.key, t>> : t \in ChildTargets(last'.cls)}
                   \cup {<<parent, last'.key>> : parent \in Parents \ {NoKey}}
            /\ DEPENDENCY_DAG.edges \subseteq DEPENDENCY_DAG'.edges
      ]_vars

\* add_configuration of a key that was already a node without a root edge
\* (the child of another key), for a class whose child declares variants
\* that were not nodes before.
C31_Witness ==
    /\ last.op = "add_configuration"
    /\ last.cls = "ChildVariants"
    /\ <<KeyA, last.key>> \in DEPENDENCY_DAG.edges
    /\ <<ROOT_KEY, last.key>> \notin DEPENDENCY_DAG.edges
    /\ {<<last.key, KeyC>>, <<last.key, KeyCVar1>>, <<last.key, KeyCVar2>>}
           \subseteq DEPENDENCY_DAG.edges
    /\ \A t \in {KeyC, KeyCVar1, KeyCVar2} : <<ROOT_KEY, t>> \notin DEPENDENCY_DAG.edges

\* What a closure of add_configuration or add_and_bind registers when it
\* runs without error: the declaration it was created with.
RegistersItsDeclaration(entry, reg) ==
    (entry.exc = "none" /\ entry.closure.func # "register_and_bind_variants") =>
        /\ entry.closure.key \in DOMAIN reg
        /\ reg[entry.closure.key] =
               ConfigurationInfo(entry.closure.config_class, entry.closure.constructor, << >>)

\* C32: the pending-registration table keeps the first closure recorded for
\* a key: no add_* call replaces the closure of a key that is in the table,
\* and expand_and_resolve_registration registers the declaration of the
\* closure the table holds.
C32_FirstClosureIsKept ==
    [][ /\ last'.op \in Adds =>
               \A k \in DOMAIN REGISTRATION_REGISTRY :
                   /\ k \in DOMAIN REGISTRATION_REGISTRY'
                   /\ REGISTRATION_REGISTRY'[k] = REGISTRATION_REGISTRY[k]
        /\ last'.op = "expand_and_resolve_registration" =>
               \A i \in 1..Len(last'.log) : RegistersItsDeclaration(last'.log[i], REGISTRY')
      ]_vars

\* C32 (amended): an add_* call keeps the closure recorded for the key it is
\* given; of the other keys, only the variant and combination keys
\* add_and_bind_variants derives from its key get a new closure (the one of
\* the main key). expand_and_resolve_registration registers the declaration
\* of the closure the table holds.
C32_OwnKeyKeepsFirstClosure ==
    [][ /\ last'.op \in Adds =>
               /\ last'.key \in DOMAIN REGISTRATION_REGISTRY =>
                      REGISTRATION_REGISTRY'[last'.key] = REGISTRATION_REGISTRY[last'.key]
               /\ \A k \in DOMAIN REGISTRATION_REGISTRY :
                      /\ k \in DOMAIN REGISTRATION_REGISTRY'
                      /\ REGISTRATION_REGISTRY'[k] # REGISTRATION_REGISTRY[k] =>
                             /\ last'.op = "add_and_bind_variants"
                             /\ k # last'.key
                             /\ k.name = last'.key.name
                             /\ REGISTRATION_REGISTRY'[k] = REGISTRATION_REGISTRY'[last'.key]
        /\ last'.op = "expand_and_resolve_registration" =>
               \A i \in 1..Len(last'.log) : RegistersItsDeclaration(last'.log[i], REGISTRY')
      ]_vars

\* An expand that registered b as first declared (Configuration itself),
\* though b was added again with a class whose child is a: the edge b -> a
\* of the second declaration is in the graph.
C32_Witness ==
    /\ Expanded
    /\ last.exc = "none"
    /\ \E i \in 1..Len(last.log) :
           /\ last.log[i].key = KeyB
           /\ last.log[i].closure.config_class = "Plain"
    /\ KeyB \in DOMAIN REGISTRY
    /\ REGISTRY[KeyB].class_type = "Plain"
    /\ <<KeyB, KeyA>> \in DEPENDENCY_DAG.edges

\* --------------------------------------------- properties: expansion

\* C33: register_and_bind_variants of a configuration without children, none
\* of whose keys is registered yet, registers exactly the base key plus one
\* distinct key per combination (no condition drops any here): REGISTRY
\* grows by 1 + the number of combinations, 7 for variant lists of sizes 3
\* and 2, and by the base key alone when no parameter declares variants.
C33_RegistryGrowsByTheCombinations ==
    [][ ( /\ last'.op = "register_and_bind_variants"
          /\ Children(NewConfiguration(last'.cls, "get_default")) = {}
          /\ \A k \in DOMAIN REGISTRY : k.name # last'.key.name )
        => /\ last'.exc = "none"
           /\ last'.key \in DOMAIN REGISTRY'
           /\ DOMAIN REGISTRY \subseteq DOMAIN REGISTRY'
           /\ Cardinality(DOMAIN REGISTRY' \ DOMAIN REGISTRY)
                  = 1 + Len(VariantsProduct(last'.cls))
      ]_vars

\* The combinations of the variants of a configuration, as a set.
Combinations(config) ==
    SeqToSet(GetDictValuesCombinations(VariantLists(config)))

\* C34: get_variants_combinations(validate=true) never raises because a
\* combination is invalid: when the delta copy of some combination fails the
\* full validation, that combination is dropped without an error and the
\* remaining combinations are still returned.
C34_InvalidCombinationsAreDropped ==
    ( /\ last.op = "get_variants_combinations"
      /\ last.strict
      /\ \E c \in Combinations(heap[last.target]) :
             ~IsValidCombination(heap, last.target, c) )
    => /\ last.exc = "none"
       /\ SeqToSet(last.combinations) =
              {c \in Combinations(heap[last.target]) :
                   IsValidCombination(heap, last.target, c)}

\* ------------------------------------------- properties: delta copies

\* The configurations of the built children of a configuration.
BuiltChildren(h, id) ==
    { h[h[id].params[p].value.ref].config :
          p \in {q \in DOMAIN h[id].params :
                    h[id].params[q].is_child /\ TypeOf(h[id].params[q].value) = "Component"} }

\* An override key that names neither a direct parameter nor, by its name or
\* by the dotted name child.name, a parameter of a built child.
Unmatched(h, id, key) ==
    /\ key \notin DOMAIN h[id].params
    /\ \A c \in BuiltChildren(h, id) : key \notin DOMAIN h[c].params
    /\ \A p \in DOMAIN h[id].params :
           (h[id].params[p].is_child /\ TypeOf(h[id].params[p].value) = "Component")
               => \A name \in DOMAIN h[h[h[id].params[p].value.ref].config].params :
                      key # p \o "." \o name

C36_BuildAppliesTheCombination ==
    ( /\ last.op = "build_component"
      /\ last.key \in DOMAIN REGISTRY
      /\ last.key \in DOMAIN BINDINGS
      /\ REGISTRY[last.key].constructor = "get_delta_class_copy" )
    => /\ last.exc = "none"
       /\ \A p \in DOMAIN NewConfiguration(REGISTRY[last.key].class_type,
                                           REGISTRY[last.key].kwargs.constructor).params :
              last.ret.config.params[p].value
                  = IF p \in DOMAIN REGISTRY[last.key].kwargs.params
                    THEN REGISTRY[last.key].kwargs.params[p]
                    ELSE NewConfiguration(REGISTRY[last.key].class_type,
                                          REGISTRY[last.key].kwargs.constructor).params[p].value

\* ------------------------------------ properties: registry invariants

\* C37: in every reachable state every key of BINDINGS and every key of
\* BUILT_REGISTRY is a key of REGISTRY.
C37_BoundAndBuiltKeysAreRegistered ==
    /\ DOMAIN BINDINGS \subseteq DOMAIN REGISTRY
    /\ DOMAIN BUILT_REGISTRY \subseteq DOMAIN REGISTRY

\* A built component was stored for a registered key by
\* register_built_component_from_key while another registered key is bound
\* and has no built component.
C37_Witness ==
    /\ last.op = "register_built_component"
    /\ last.exc = "none"
    /\ last.key \in DOMAIN BUILT_REGISTRY
    /\ \E k \in DOMAIN BINDINGS : k \notin DOMAIN BUILT_REGISTRY

\* ------------------------------------ properties: resolving the table

\* C38: in every reachable state every key of the pending table is a node of
\* the dependency graph; and an expand_and_resolve_registration that ends
\* without an exception (the graph is acyclic and every closure succeeded)
\* leaves the pending table empty and every key that was pending in
\* REGISTRY.
C38_PendingKeysAreNodesAndGetRegistered ==
    /\ [](DOMAIN REGISTRATION_REGISTRY \subseteq DEPENDENCY_DAG.nodes)
    /\ [][ (last'.op = "expand_and_resolve_registration" /\ last'.exc = "none")
           => /\ REGISTRATION_REGISTRY' = EmptyMap
              /\ DOMAIN REGISTRATION_REGISTRY \subseteq DOMAIN REGISTRY'
         ]_vars

\* ----------------------------------------- properties: cyclic graphs

\* C39: when the dependency graph contains a cycle,
\* expand_and_resolve_registration fails before it invokes any deferred
\* closure: REGISTRY, BINDINGS and the pending table are left as they were.
C39_CycleFailsBeforeAnyClosure ==
    [][ (HasCycle(DEPENDENCY_DAG) /\ last'.op = "expand_and_resolve_registration")
        => /\ last'.exc = "NetworkXUnfeasible"
           /\ last'.log = << >>
           /\ REGISTRY' = REGISTRY
           /\ BINDINGS' = BINDINGS
           /\ REGISTRATION_REGISTRY' = REGISTRATION_REGISTRY
      ]_vars

\* An expand has failed on a cyclic graph while two closures are pending.
C39_Witness ==
    /\ Expanded
    /\ last.exc = "NetworkXUnfeasible"
    /\ HasCycle(DEPENDENCY_DAG)
    /\ Cardinality(DOMAIN REGISTRATION_REGISTRY) = 2
    /\ REGISTRY = EmptyMap

\* --------------------------------------- properties: failing closures

\* The exception of a closure, as opposed to none and to the sort's.
ClosureFailed(call) ==
    /\ call.op = "expand_and_resolve_registration"
    /\ call.exc \notin {"none", "NetworkXUnfeasible"}

\* The keys a log dropped from the table: the popped keys and their aliases.
Dropped(log) == UNION {log[i].aliases : i \in 1..Len(log)}

\* C40: when a deferred closure raises, expand_and_resolve_registration
\* stops there: the closure that raised is the last one invoked, it and its
\* aliases (like every closure invoked before it) are out of the pending
\* table, and the other entries stay pending as they were. The next
\* expand_and_resolve_registration invokes only closures still pending, so
\* never the one that raised, and, unless it fails in turn, all of them.
C40_FailingClosureStopsTheCall ==
    [][ (last'.op = "expand_and_resolve_registration")
        => /\ ClosureFailed(last')
              => /\ Len(last'.log) >= 1
                 /\ \A i \in 1..Len(last'.log) :
                        (last'.log[i].exc # "none") <=> (i = Len(last'.log))
                 /\ last'.log[Len(last'.log)].exc = last'.exc
                 /\ REGISTRATION_REGISTRY'
                        = Without(REGISTRATION_REGISTRY, Dropped(last'.log))
                 /\ InvokedIds(last'.log) \cap PendingIds(REGISTRATION_REGISTRY') = {}
           /\ ClosureFailed(last)
              => /\ InvokedIds(last'.log) \subseteq PendingIds(REGISTRATION_REGISTRY)
                 /\ last.log[Len(last.log)].closure.id \notin InvokedIds(last'.log)
                 /\ last'.exc = "none"
                        => PendingIds(REGISTRATION_REGISTRY) \subseteq InvokedIds(last'.log)
      ]_vars

\* An expand has stopped at a closure that raised AlreadyRegistered while
\* another closure is still pending.
C40_Witness ==
    /\ ClosureFailed(last)
    /\ last.exc = "AlreadyRegistered"
    /\ REGISTRATION_REGISTRY # EmptyMap
    /\ last.log[Len(last.log)].key \notin DOMAIN REGISTRATION_REGISTRY

====
